---- MODULE Spec2Model ----
(***************************************************************************)
(* The Snapshot Comparison Engine of BPO-Snapshot:                         *)
(* processSnapshotData of src/src/services/snapshotProcessor.js, in its    *)
(* latest revision (lines 402-1141), as a state machine that walks the     *)
(* function statement group by statement group.                            *)
(* Around it: the /api/snapshot handler (src/unnamed/part_006) with        *)
(* generateAISummary and saveSnapshot, retryWithBackoff of                 *)
(* src/src/services/openaiService.js, and generateHighPerformerStories of  *)
(* src/src/services/storyGenerator.js, each a state machine of its own     *)
(* over its own variables.                                                 *)
(*                                                                         *)
(* Representation.  A JavaScript string is a sequence of one-character     *)
(* strings, so that trim() and toUpperCase() are computed, not assumed.    *)
(* null and undefined in a string-typed field are the marker sequences     *)
(* NULL and UNDEFINED.  A value of a numeric field is a record             *)
(* [t, n, s]: a number, a string, null or undefined.  A mean is the pair   *)
(* [sum, n] of the values averaged (n = 0: no value, JavaScript null);     *)
(* toFixed(d) is the nearest multiple of 10^-d of the exact quotient,      *)
(* ties away from zero, held as an integer count of 10^-d units.           *)
(***************************************************************************)
EXTENDS Integers, Sequences, FiniteSets, TLC

\* ------------------------------------------------------------ strings

NULL == <<"null">>
UNDEFINED == <<"undefined">>

LowerLetters ==
  <<"a","b","c","d","e","f","g","h","i","j","k","l","m",
    "n","o","p","q","r","s","t","u","v","w","x","y","z">>
UpperLetters ==
  <<"A","B","C","D","E","F","G","H","I","J","K","L","M",
    "N","O","P","Q","R","S","T","U","V","W","X","Y","Z">>
Digits == <<"0","1","2","3","4","5","6","7","8","9">>

\* !str of a string-typed field: null, undefined and '' are falsy
Falsy(str) == str \in {NULL, UNDEFINED, <<>>}

ToUpperChar(c) ==
  IF \E i \in 1..Len(LowerLetters) : LowerLetters[i] = c
    THEN UpperLetters[CHOOSE i \in 1..Len(LowerLetters) : LowerLetters[i] = c]
    ELSE c

\* String.prototype.toUpperCase
ToUpperCase(s) == [i \in 1..Len(s) |-> ToUpperChar(s[i])]

\* String.prototype.trim
Trim(s) ==
  LET keep == {i \in 1..Len(s) : s[i] # " "}
  IN IF keep = {} THEN <<>>
     ELSE SubSeq(s, CHOOSE i \in keep : \A j \in keep : i <= j,
                    CHOOSE i \in keep : \A j \in keep : j <= i)

\* Array.prototype.includes
Includes(arr, x) == \E i \in 1..Len(arr) : arr[i] = x

\* Array.prototype.indexOf (0-based, -1 when absent)
IndexOf(arr, x) ==
  IF Includes(arr, x)
    THEN (CHOOSE i \in 1..Len(arr) : arr[i] = x /\ \A j \in 1..(i-1) : arr[j] # x) - 1
    ELSE -1

\* arr[i] with JavaScript's 0-based index
At(arr, i) == arr[i + 1]

\* ------------------------------------------------------------ months

Jan == <<"J","a","n">>
Feb == <<"F","e","b">>
Mar == <<"M","a","r">>
Apr == <<"A","p","r">>
May == <<"M","a","y">>
Jun == <<"J","u","n">>
Jul == <<"J","u","l">>
Aug == <<"A","u","g">>
Sep == <<"S","e","p">>
Oct == <<"O","c","t">>
Nov == <<"N","o","v">>
Dec == <<"D","e","c">>

Q1 == <<"Q","1">>
Q2 == <<"Q","2">>
Q3 == <<"Q","3">>
Q4 == <<"Q","4">>

monthOrder == <<Jan, Feb, Mar, Apr, May, Jun, Jul, Aug, Sep, Oct, Nov, Dec>>

\* a period list: `def' is FALSE for JavaScript undefined (an unknown quarter)
Period(ms) == [def |-> TRUE, months |-> ms]
UndefinedPeriod == [def |-> FALSE, months |-> <<>>]

quarterMonths(q) ==
  CASE q = Q1 -> Period(<<Jan, Feb, Mar>>)
    [] q = Q2 -> Period(<<Apr, May, Jun>>)
    [] q = Q3 -> Period(<<Jul, Aug, Sep>>)
    [] q = Q4 -> Period(<<Oct, Nov, Dec>>)
    [] OTHER -> UndefinedPeriod

shiftMonthBack_NoWrap(month) ==
  LET idx == IndexOf(monthOrder, month)
  IN IF idx > 0 THEN At(monthOrder, idx - 1) ELSE At(monthOrder, 0)

shiftMonthBack_OffByOne(month) ==
  LET idx == IndexOf(monthOrder, month)
  IN IF idx > 1 THEN At(monthOrder, idx - 1) ELSE At(monthOrder, 11)

shiftMonthBack(month) ==
  LET idx == IndexOf(monthOrder, month)
  IN IF idx > 0 THEN At(monthOrder, idx - 1) ELSE At(monthOrder, 11)

shiftQuarterBack_OneMonth(m) ==
  LET idx == IndexOf(monthOrder, m)
  IN At(monthOrder, (idx - 1 + 12) % 12)

\* the quarter-mode map callback: m => monthOrder[(idx - 3 + 12) % 12]
shiftQuarterBack(m) ==
  LET idx == IndexOf(monthOrder, m)
  IN At(monthOrder, (idx - 3 + 12) % 12)

MapSeq(Op(_), arr) == [i \in 1..Len(arr) |-> Op(arr[i])]


\* ------------------------------------------------------------ periods

\* lines 406-421: the performance periods
resolveCurrentPeriod(p) ==
  IF p.comparison_type = "month"
    THEN Period(<<p.current_month>>)
    ELSE quarterMonths(p.current_quarter)

resolvePreviousPeriod(p) ==
  IF p.comparison_type = "month"
    THEN Period(<<p.previous_month>>)
    ELSE quarterMonths(p.previous_quarter)

\* lines 434-439: currentCoachingPeriod
shiftCurrentPeriod(p, cp, pp) ==
  IF p.comparison_type = "month"
    THEN Period(MapSeq(shiftMonthBack, cp.months))
    ELSE pp

\* line 440: previousPeriod.map(...) on undefined is a TypeError
shiftThrows(p, pp) == p.comparison_type # "month" /\ ~pp.def

\* lines 436 and 440-443: previousCoachingPeriod
shiftPreviousPeriod(p, pp) ==
  IF p.comparison_type = "month"
    THEN Period(MapSeq(shiftMonthBack, pp.months))
    ELSE Period(MapSeq(shiftQuarterBack, pp.months))

\* ------------------------------------------------------------ values

\* a value of a numeric field as the database client delivers it
Num(n) == [t |-> "number", n |-> n, s |-> <<>>]
Str(s) == [t |-> "string", n |-> 0, s |-> s]
NullV == [t |-> "null", n |-> 0, s |-> <<>>]
UndefV == [t |-> "undefined", n |-> 0, s |-> <<>>]

NaN == [nan |-> TRUE, n |-> 0]
Finite(n) == [nan |-> FALSE, n |-> n]

DigitValue(c) == IndexOf(Digits, c)

RECURSIVE ParseDigits(_, _)
ParseDigits(s, acc) ==
  IF s = <<>> THEN acc ELSE ParseDigits(Tail(s), acc * 10 + DigitValue(Head(s)))

\* StringToNumber on the strings of the model: optional sign, decimal digits;
\* surrounding blanks are skipped and the empty string is 0
StringToNumber(str) ==
  LET s == Trim(str)
      neg == s # <<>> /\ Head(s) = "-"
      body == IF neg THEN Tail(s) ELSE s
  IN IF s = <<>> THEN Finite(0)
     ELSE IF body # <<>> /\ \A i \in 1..Len(body) : Includes(Digits, body[i])
       THEN Finite(IF neg THEN 0 - ParseDigits(body, 0) ELSE ParseDigits(body, 0))
       ELSE NaN

\* Number(v)
ToNumber(v) ==
  CASE v.t = "number" -> Finite(v.n)
    [] v.t = "null" -> Finite(0)
    [] v.t = "undefined" -> NaN
    [] OTHER -> StringToNumber(v.s)

isValid_NullIsZero(v) ==
  v.t # "undefined" /\ ~(v.t = "string" /\ v.s = <<>>) /\ ~ToNumber(v).nan

\* const isValid = (v) => v !== null && v !== undefined && v !== '' && !isNaN(Number(v))
isValid(v) ==
  v.t # "null" /\ v.t # "undefined" /\ ~(v.t = "string" /\ v.s = <<>>)
  /\ ~ToNumber(v).nan

\* Number(x) || 0
NumberOrZero(v) == IF ToNumber(v).nan THEN 0 ELSE ToNumber(v).n

\* x || 0, for x a number, null or undefined
ValueOrZero(v) == IF v.t = "number" THEN v.n ELSE 0

Abs(x) == IF x < 0 THEN 0 - x ELSE x

\* the integer nearest to a / b (b # 0), ties away from zero: the digits
\* Number.prototype.toFixed prints for the quotient scaled to its last decimal
RoundDiv(a, b) ==
  LET q == (2 * Abs(a) + Abs(b)) \div (2 * Abs(b))
  IN IF (a < 0) # (b < 0) THEN 0 - q ELSE q

\* a formatted number: units * 10^-decimals followed by text, or 'N/A'
Fixed(units, decimals, text) ==
  [na |-> FALSE, units |-> units, decimals |-> decimals, text |-> text]
NA == [na |-> TRUE, units |-> 0, decimals |-> 0, text |-> "N/A"]
ZeroPercent == Fixed(0, 0, "%")

RECURSIVE SumSeq(_)
SumSeq(xs) == IF xs = <<>> THEN 0 ELSE Head(xs) + SumSeq(Tail(xs))

\* values.length > 0 ? values.reduce((a, b) => a + b, 0) / values.length : null
AverageOf(values) == [sum |-> SumSeq(values), n |-> Len(values)]

\* ------------------------------------------------------------ normalisation

normalizeString(str) ==
  IF Falsy(str) THEN <<>> ELSE ToUpperCase(Trim(str))

monthMap ==
  << <<"J","A","N">>, <<"J","A","N","U","A","R","Y">>,
     <<"F","E","B">>, <<"F","E","B","R","U","A","R","Y">>,
     <<"M","A","R">>, <<"M","A","R","C","H">>,
     <<"A","P","R">>, <<"A","P","R","I","L">>,
     <<"M","A","Y">>, <<"M","A","Y">>,
     <<"J","U","N">>, <<"J","U","N","E">>,
     <<"J","U","L">>, <<"J","U","L","Y">>,
     <<"A","U","G">>, <<"A","U","G","U","S","T">>,
     <<"S","E","P">>, <<"S","E","P","T","E","M","B","E","R">>,
     <<"O","C","T">>, <<"O","C","T","O","B","E","R">>,
     <<"N","O","V">>, <<"N","O","V","E","M","B","E","R">>,
     <<"D","E","C">>, <<"D","E","C","E","M","B","E","R">> >>

\* monthMap[m.toUpperCase()] || m.toUpperCase(): the table lists, for each
\* month, its code at an odd position and its full name after it
normalizeMonth(month) ==
  IF Falsy(month) THEN <<>>
  ELSE LET u == ToUpperCase(Trim(month))
           i == IndexOf(monthMap, u)
       IN IF i < 0 THEN u ELSE At(monthMap, i - (i % 2))


\* ------------------------------------------------------------ record matching

\* the metric filters' callback, lines 609-615 and 618-624: strict equality
\* on every field
metricKeep(p, period, item) ==
  /\ Includes(p.clients, item.client)
  /\ item.amplifai_org = p.organization
  /\ item.amplifai_metric = p.metric_name
  /\ Includes(period.months, item.month)
  /\ item.year = p.year

\* the && chain reaches `period.includes(item.month)' for this row
metricReachesPeriod(p, item) ==
  /\ Includes(p.clients, item.client)
  /\ item.amplifai_org = p.organization
  /\ item.amplifai_metric = p.metric_name

clientMatch(p, item) == Includes(p.clients, item.client)

orgMatch(p, item) ==
  normalizeString(item.amplifai_org) = normalizeString(p.organization)

metricMatch(p, item) ==
  \/ normalizeString(item.amplifai_metric) = normalizeString(p.metric_name)
  \/ normalizeString(item.metric) = normalizeString(p.metric_name)

directMonthMatch(period, item) == Includes(period.months, item.month)

\* direct match first, then the normalised fallback on both sides
monthMatch(period, item) ==
  IF ~directMonthMatch(period, item)
    THEN Includes(MapSeq(normalizeMonth, period.months), normalizeMonth(item.month))
    ELSE TRUE

yearMatch(p, item) == item.year = p.year

\* the verdict both coaching filters return, lines 730 and 821
coachingKeep(p, period, item) ==
  /\ clientMatch(p, item)
  /\ orgMatch(p, item)
  /\ metricMatch(p, item)
  /\ monthMatch(period, item)
  /\ yearMatch(p, item)

\* Line 813, inside the previous-period callback's fallback branch, reads
\* yearMatch, a const that line 819 declares: the read happens, and raises a
\* ReferenceError, exactly when the direct month match failed and the three
\* operands before it in the && chain are true.
previousFilterThrows(p, period, item) ==
  /\ ~directMonthMatch(period, item)
  /\ clientMatch(p, item)
  /\ orgMatch(p, item)
  /\ metricMatch(p, item)

\* Array.prototype.filter calls the callback on every row in turn, so the
\* filter throws when the callback throws on some row
previousCoachingThrows(p, period, rows) ==
  \E i \in 1..Len(rows) : previousFilterThrows(p, period, rows[i])

\* lines 609-615 with currentPeriod undefined: undefined.includes(...) is a
\* TypeError, raised for the first row that gets as far as the month test
metricFilterThrows(p, period, rows) ==
  ~period.def /\ \E i \in 1..Len(rows) : metricReachesPeriod(p, rows[i])

\* the counters the current-period callback increments, lines 689-723
matchCounts(p, period, rows) ==
  [client_matches |-> Len(SelectSeq(rows, LAMBDA r : clientMatch(p, r))),
   org_matches    |-> Len(SelectSeq(rows, LAMBDA r : orgMatch(p, r))),
   metric_matches |-> Len(SelectSeq(rows, LAMBDA r : metricMatch(p, r))),
   month_matches  |-> Len(SelectSeq(rows, LAMBDA r : monthMatch(period, r))),
   year_matches   |-> Len(SelectSeq(rows, LAMBDA r : yearMatch(p, r)))]


\* ------------------------------------------------------------ metric aggregation

\* rows.map(item => item.actual).filter(isValid).map(Number)
validActuals(rows) ==
  LET vs == SelectSeq([i \in 1..Len(rows) |-> rows[i].actual], isValid)
  IN [i \in 1..Len(vs) |-> ToNumber(vs[i]).n]

metricAverage(rows) == AverageOf(validActuals(rows))

\* avg !== null ? avg.toFixed(2) : 'N/A'
formatAverage(avg) ==
  IF avg.n > 0 THEN Fixed(RoundDiv(avg.sum * 100, avg.n), 2, "") ELSE NA

formatChange_PreviousNonZero(cur, prev) ==
  IF cur.n > 0 /\ prev.n > 0 /\ prev.sum # 0
    THEN Fixed(RoundDiv((cur.sum * prev.n - prev.sum * cur.n) * 100, cur.n * prev.n), 2, "")
    ELSE NA

\* change = (cur !== null && prev !== null) ? cur - prev : null, then toFixed(2)
formatChange(cur, prev) ==
  IF cur.n > 0 /\ prev.n > 0
    THEN Fixed(RoundDiv((cur.sum * prev.n - prev.sum * cur.n) * 100, cur.n * prev.n), 2, "")
    ELSE NA

formatPercentChange_OverCurrent(cur, prev) ==
  IF cur.n > 0 /\ prev.n > 0 /\ cur.sum # 0
    THEN Fixed(RoundDiv((cur.sum * prev.n - prev.sum * cur.n) * 10000, prev.n * cur.sum), 2, "%")
    ELSE NA

\* percentChange = (change !== null && previousAvg !== 0)
\*   ? ((change / previousAvg) * 100).toFixed(2) : null, shown with '%' or as 'N/A'
formatPercentChange(cur, prev) ==
  IF cur.n > 0 /\ prev.n > 0 /\ prev.sum # 0
    THEN Fixed(RoundDiv((cur.sum * prev.n - prev.sum * cur.n) * 10000, cur.n * prev.sum), 2, "%")
    ELSE NA

programsCount_CurrentOnly(cur, prev) ==
  Cardinality({cur[i].program : i \in 1..Len(cur)} \ {NULL, UNDEFINED, <<>>})

\* new Set([...cur.map(program), ...prev.map(program)].filter(Boolean)).size
programsCount(cur, prev) ==
  Cardinality({r.program : r \in {cur[i] : i \in 1..Len(cur)} \cup {prev[i] : i \in 1..Len(prev)}}
              \ {NULL, UNDEFINED, <<>>})

\* ------------------------------------------------------------ coaching aggregation

TopBehaviorsLimit == 5
TopSubBehaviorsLimit == 3

sessionsOf_MissingAsOne(rows) ==
  SumSeq([i \in 1..Len(rows) |->
            IF rows[i].coaching_count.t \in {"null", "undefined"} THEN 1
            ELSE NumberOrZero(rows[i].coaching_count)])

\* rows.reduce((sum, item) => sum + (Number(item.coaching_count) || 0), 0)
sessionsOf(rows) ==
  SumSeq([i \in 1..Len(rows) |-> NumberOrZero(rows[i].coaching_count)])

withEffectiveness_All(rows) == rows

\* rows.filter(item => item.effectiveness_pct !== null && ... !== undefined)
withEffectiveness(rows) ==
  SelectSeq(rows, LAMBDA r : r.effectiveness_pct.t \notin {"null", "undefined"})

\* mean of effectiveness_pct over the rows that have one
effectivenessOf(rows) ==
  LET es == withEffectiveness(rows)
  IN AverageOf([i \in 1..Len(es) |-> es[i].effectiveness_pct.n])

\* (eff * 100).toFixed(2) + '% (based on X of Y sessions)', or 'No effectiveness data'
formatEffectiveness(rows) ==
  LET eff == effectivenessOf(rows)
  IN IF eff.n > 0
       THEN [nodata |-> FALSE, units |-> RoundDiv(eff.sum * 10000, eff.n),
             based_on |-> Len(withEffectiveness(rows)), of |-> Len(rows)]
       ELSE [nodata |-> TRUE, units |-> 0, based_on |-> 0, of |-> 0]

\* counts[key] = (counts[key] || 0) + count, over [key, count] pairs in order:
\* the keys in the order of their creation, each with its sum
RECURSIVE Accumulate(_, _)
Accumulate(pairs, acc) ==
  IF pairs = <<>> THEN acc
  ELSE LET h == Head(pairs)
           at == {i \in 1..Len(acc) : acc[i].key = h.key}
       IN Accumulate(Tail(pairs),
            IF at = {} THEN Append(acc, h)
            ELSE [acc EXCEPT ![CHOOSE i \in at : TRUE].count = @ + h.count])

\* a property key that is a canonical array index: '0', or decimal digits with
\* no leading zero (below 2^32 - 1, which every key of the model is)
IsArrayIndex(key) ==
  /\ key # <<>>
  /\ \A i \in 1..Len(key) : Includes(Digits, key[i])
  /\ (Len(key) = 1 \/ key[1] # "0")

RECURSIVE AscendingByIndex(_)
AscendingByIndex(es) ==
  IF es = <<>> THEN <<>>
  ELSE LET m == CHOOSE i \in 1..Len(es) :
                  \A j \in 1..Len(es) : ParseDigits(es[i].key, 0) <= ParseDigits(es[j].key, 0)
       IN <<es[m]>> \o AscendingByIndex(SubSeq(es, 1, m - 1) \o SubSeq(es, m + 1, Len(es)))

\* Object.entries of an ordinary object: the array-index keys in ascending
\* numeric order, then the other string keys in the order of their creation
ObjectEntries(acc) ==
  AscendingByIndex(SelectSeq(acc, LAMBDA e : IsArrayIndex(e.key)))
    \o SelectSeq(acc, LAMBDA e : ~IsArrayIndex(e.key))

RECURSIVE SortDescFrom(_, _)
SortDescFrom(es, sorted) ==
  IF es = <<>> THEN sorted
  ELSE LET e == Head(es)
           k == Cardinality({i \in 1..Len(sorted) : sorted[i].count >= e.count})
       IN SortDescFrom(Tail(es),
            SubSeq(sorted, 1, k) \o <<e>> \o SubSeq(sorted, k + 1, Len(sorted)))

\* entries.sort((a, b) => b[1] - a[1]): Array.prototype.sort is stable
SortByCountDesc(es) == SortDescFrom(es, <<>>)

\* arr.slice(0, n)
Slice(arr, n) == SubSeq(arr, 1, IF Len(arr) < n THEN Len(arr) ELSE n)

SliceTop_All(arr, n) == arr

SliceTop(arr, n) == Slice(arr, n)

\* total > 0 ? ((count / total) * 100).toFixed(1) + '%' : '0%'
formatShare(count, total) ==
  IF total > 0 THEN Fixed(RoundDiv(count * 1000, total), 1, "%") ELSE ZeroPercent

\* second pass of getSubBehaviors: the rows of the behavior that have a
\* sub_behavior, as [sub_behavior, coaching_count || 0]
subBehaviorPairs(rows) ==
  LET having == SelectSeq(rows, LAMBDA r : ~Falsy(r.sub_behavior))
  IN [i \in 1..Len(having) |-> [key |-> having[i].sub_behavior,
                                 count |-> ValueOrZero(having[i].coaching_count)]]

totalForBehavior_WithSubBehavior(coachingData, behaviorName) ==
  LET mine == SelectSeq(coachingData, LAMBDA r : /\ r.behavior = behaviorName
                                                 /\ ~Falsy(r.sub_behavior))
  IN SumSeq([i \in 1..Len(mine) |-> ValueOrZero(mine[i].coaching_count)])

\* first pass of getSubBehaviors: totalForBehavior
totalForBehavior(coachingData, behaviorName) ==
  LET mine == SelectSeq(coachingData, LAMBDA r : r.behavior = behaviorName)
  IN SumSeq([i \in 1..Len(mine) |-> ValueOrZero(mine[i].coaching_count)])

getSubBehaviors(coachingData, behaviorName) ==
  LET mine == SelectSeq(coachingData, LAMBDA r : r.behavior = behaviorName)
      total == totalForBehavior(coachingData, behaviorName)
      top == SliceTop(SortByCountDesc(ObjectEntries(Accumulate(subBehaviorPairs(mine), <<>>))),
                      TopSubBehaviorsLimit)
  IN [i \in 1..Len(top) |->
        [sub_behavior |-> top[i].key, sessions |-> top[i].count,
         percent_of_behavior |-> formatShare(top[i].count, total)]]

\* behaviorCounts of the current period, lines 968-978: Number(count) || 0
behaviorCounts(rows) ==
  LET having == SelectSeq(rows, LAMBDA r : ~Falsy(r.behavior))
  IN Accumulate([i \in 1..Len(having) |->
                   [key |-> having[i].behavior,
                    count |-> NumberOrZero(having[i].coaching_count)]], <<>>)

\* prevBehaviorCounts, lines 1013-1019: count || 0
prevBehaviorCounts(rows) ==
  LET having == SelectSeq(rows, LAMBDA r : ~Falsy(r.behavior))
  IN Accumulate([i \in 1..Len(having) |->
                   [key |-> having[i].behavior,
                    count |-> ValueOrZero(having[i].coaching_count)]], <<>>)

\* the .sort().slice(0, 5).map(...) chains of lines 983-995 and 1021-1029
rankBehaviors(counts, rows, sessions) ==
  LET top == SliceTop(SortByCountDesc(ObjectEntries(counts)), TopBehaviorsLimit)
  IN [i \in 1..Len(top) |->
        [behavior |-> top[i].key, sessions |-> top[i].count,
         percent_of_total |-> formatShare(top[i].count, sessions),
         sub_behaviors |-> getSubBehaviors(rows, top[i].key)]]

topBehaviors(rows) == rankBehaviors(behaviorCounts(rows), rows, sessionsOf(rows))

prevTopBehaviors(rows) == rankBehaviors(prevBehaviorCounts(rows), rows, sessionsOf(rows))


formatVolumeChangePct_CurrentPositive(cur, prev) ==
  IF cur > 0 /\ prev > 0
    THEN Fixed(RoundDiv((cur - prev) * 1000, prev), 1, "%")
    ELSE NA

\* previousSessions > 0 ? (((cur - prev) / prev) * 100).toFixed(1) + '%' : 'N/A'
formatVolumeChangePct(cur, prev) ==
  IF prev > 0
    THEN Fixed(RoundDiv((cur - prev) * 1000, prev), 1, "%")
    ELSE NA

\* both !== null ? ((cur - prev) * 100).toFixed(2) + ' points' : 'N/A', for
\* the two effectiveness means as [sum, n]
formatEffectivenessChange(curEff, prevEff) ==
  IF curEff.n > 0 /\ prevEff.n > 0
    THEN Fixed(RoundDiv((curEff.sum * prevEff.n - prevEff.sum * curEff.n) * 10000,
                        curEff.n * prevEff.n), 2, " points")
    ELSE NA

\* ------------------------------------------------------------ the snapshot

effectivenessCoverage_OfCovered(rows) ==
  [based_on |-> Len(withEffectiveness(rows)), of |-> Len(withEffectiveness(rows))]

\* withEffectiveness.length + ' of ' + rows.length, lines 1053-1054, held as
\* the two numbers it prints
effectivenessCoverage(rows) ==
  [based_on |-> Len(withEffectiveness(rows)), of |-> Len(rows)]

\* the object literal of lines 1032-1084; a period label is held as the list
\* of months that join(', ') prints
composeResult(p, cp, pp, ccp, pcp, cm, pm, cc, pcg) ==
  LET curAvg == metricAverage(cm)
      prevAvg == metricAverage(pm)
      curSessions == sessionsOf(cc)
      prevSessions == sessionsOf(pcg)
      curEff == effectivenessOf(cc)
      prevEff == effectivenessOf(pcg)
  IN [snapshot_metadata |->
        [clients |-> p.clients,
         organization |-> p.organization,
         metric |-> p.metric_name,
         comparison |->
           [current_period |-> [months |-> cp.months, year |-> p.year],
            previous_period |-> [months |-> pp.months, year |-> p.year],
            current_value |-> formatAverage(curAvg),
            previous_value |-> formatAverage(prevAvg),
            change |-> formatChange(curAvg, prevAvg),
            percent_change |-> formatPercentChange(curAvg, prevAvg)],
         programs_count |-> programsCount(cm, pm),
         data_quality |->
           [metric_data_points_current |-> Len(cm),
            metric_data_points_previous |-> Len(pm),
            total_metric_data_points |-> Len(cm) + Len(pm),
            coaching_records_current |-> Len(cc),
            coaching_records_previous |-> Len(pcg),
            total_coaching_records |-> Len(cc) + Len(pcg),
            coaching_effectiveness_coverage_current |-> effectivenessCoverage(cc),
            coaching_effectiveness_coverage_previous |-> effectivenessCoverage(pcg)]],
      coaching_activity |->
        [current |->
           [period_label |-> ccp.months,
            total_coaching_sessions |-> curSessions,
            coaching_effectiveness |-> formatEffectiveness(cc),
            top_behaviors |-> topBehaviors(cc)],
         previous |->
           [period_label |-> pcp.months,
            total_coaching_sessions |-> prevSessions,
            coaching_effectiveness |-> formatEffectiveness(pcg),
            top_behaviors |-> prevTopBehaviors(pcg)],
         change |->
           [coaching_volume_change |-> curSessions - prevSessions,
            coaching_volume_change_pct |-> formatVolumeChangePct(curSessions, prevSessions),
            effectiveness_change |-> formatEffectivenessChange(curEff, prevEff)]]]

\* a query result whose data is null: no array at all
Absent == <<[absent |-> TRUE]>>

\* (rows || [])
OrEmpty(rows) == IF rows = Absent THEN <<>> ELSE rows

\* orgYearMatches, lines 682-685
orgYearMatches(p, rows) ==
  Len(SelectSeq(rows, LAMBDA r : /\ normalizeString(r.amplifai_org) = normalizeString(p.organization)
                                  /\ r.year = p.year))

\* sample_db_record, lines 1123-1130: fields of the first fetched row, or null (<<>>)
sampleDbRecord(bc) ==
  IF bc # Absent /\ Len(bc) > 0
    THEN <<[client |-> bc[1].client, amplifai_org |-> bc[1].amplifai_org,
            amplifai_metric |-> bc[1].amplifai_metric, metric |-> bc[1].metric,
            month |-> bc[1].month, year |-> bc[1].year]>>
    ELSE <<>>

\* the object literal of lines 1102-1135; bc is allBehavioralCoaching as fetched
debugInfo(p, ccp, pcp, bc, cc, pcg, counts) ==
  [total_records_in_db |-> Len(OrEmpty(bc)),
   records_matching_org_year |-> orgYearMatches(p, OrEmpty(bc)),
   filter_breakdown |-> counts,
   search_criteria |->
     [clients |-> p.clients, organization |-> p.organization,
      metric_name |-> p.metric_name,
      normalized_metric_name |-> normalizeString(p.metric_name),
      current_coaching_months |-> ccp.months,
      previous_coaching_months |-> pcp.months,
      year |-> p.year],
   current_coaching_records |-> Len(cc),
   previous_coaching_records |-> Len(pcg),
   sample_db_record |-> sampleDbRecord(bc),
   db_query_success |-> TRUE,
   db_error |-> NULL,
   all_behavioral_coaching_length |-> Len(OrEmpty(bc))]

\* result.debug_info = debugInfo, line 1137
withDebugInfo(res, info) ==
  [snapshot_metadata |-> res.snapshot_metadata,
   coaching_activity |-> res.coaching_activity,
   debug_info |-> info]

\* ------------------------------------------------------------ state

VARIABLES
  params,                  \* the request handed to processSnapshotData
  monthly_metrics,         \* the monthly_metrics table
  behavioral_coaching,     \* the behavioral_coaching table
  pc,                      \* the statement group processSnapshotData is at
  currentPeriod, previousPeriod,
  currentCoachingPeriod, previousCoachingPeriod,
  allMonthlyMetrics, allBehavioralCoaching,
  currentMetrics, previousMetrics,
  currentCoaching, previousCoaching,
  filterBreakdown,         \* clientMatches .. yearMatches
  result,                  \* <<>> until the snapshot is returned, then <<snapshot>>
  error                    \* "none", or the error processSnapshotData threw

\* the /api/snapshot handler
VARIABLES
  req,                     \* the HTTP request and the environment it arrives in
  hpc,                     \* the statement group the handler is at
  snapshotData,            \* <<>>, or <<the snapshot the handler holds>>
  calls,                   \* the services called so far, in order
  metric_snapshots,        \* the rows inserted into metric_snapshots
  response                 \* <<>>, or <<the response sent>>

handlerVars == <<req, hpc, snapshotData, calls, metric_snapshots, response>>

\* retryWithBackoff under generateStory
VARIABLES
  maxRetries, delay,       \* the arguments of retryWithBackoff
  attempt,                 \* the loop counter
  rpc,                     \* the statement the loop is at
  events,                  \* the invocations of fn and the waits, in order
  settled                  \* <<>>, or <<how generateStory ended>>

retryVars == <<maxRetries, delay, attempt, rpc, events, settled>>

\* generateHighPerformerStories
VARIABLES
  options,                 \* limit and saveToDatabase
  high_performers,         \* what the query for high performers finds
  faults,                  \* per program, the service that fails for it
  performers,              \* the performers fetched
  loopIndex,               \* the loop index i
  stories, errors,         \* the two arrays of the loop
  story_log,               \* the rows inserted into story_log
  spc,                     \* the statement the function is at
  returned                 \* <<>>, or <<the array returned>>

storyVars ==
  <<options, high_performers, faults, performers, loopIndex, stories, errors, story_log,
    spc, returned>>

\* the state outside processSnapshotData
otherVars == <<handlerVars, retryVars, storyVars>>

vars ==
  <<params, monthly_metrics, behavioral_coaching, pc, currentPeriod, previousPeriod,
    currentCoachingPeriod, previousCoachingPeriod, allMonthlyMetrics,
    allBehavioralCoaching, currentMetrics, previousMetrics, currentCoaching,
    previousCoaching, filterBreakdown, result, error, otherVars>>

\* no request has arrived
HandlerIdle ==
  /\ req = <<>>
  /\ hpc = "idle"
  /\ snapshotData = <<>>
  /\ calls = <<>>
  /\ metric_snapshots = <<>>
  /\ response = <<>>

\* retryWithBackoff has not been called
RetryIdle ==
  /\ maxRetries = 0
  /\ delay = 0
  /\ attempt = 0
  /\ rpc = "idle"
  /\ events = <<>>
  /\ settled = <<>>

\* generateHighPerformerStories has not been called
StoriesIdle ==
  /\ options = <<>>
  /\ high_performers = <<>>
  /\ faults = <<>>
  /\ performers = <<>>
  /\ loopIndex = 0
  /\ stories = <<>>
  /\ errors = <<>>
  /\ story_log = <<>>
  /\ spc = "idle"
  /\ returned = <<>>

NoCounts ==
  [client_matches |-> 0, org_matches |-> 0, metric_matches |-> 0,
   month_matches |-> 0, year_matches |-> 0]

\* the locals of a call that has not started
NotStarted ==
  /\ currentPeriod = UndefinedPeriod
  /\ previousPeriod = UndefinedPeriod
  /\ currentCoachingPeriod = UndefinedPeriod
  /\ previousCoachingPeriod = UndefinedPeriod
  /\ allMonthlyMetrics = <<>>
  /\ allBehavioralCoaching = <<>>
  /\ currentMetrics = <<>>
  /\ previousMetrics = <<>>
  /\ currentCoaching = <<>>
  /\ previousCoaching = <<>>
  /\ filterBreakdown = NoCounts
  /\ result = <<>>
  /\ error = "none"

\* processSnapshotData called by itself, at its first statement
InitLocals ==
  /\ pc = "resolve"
  /\ HandlerIdle
  /\ RetryIdle
  /\ StoriesIdle
  /\ NotStarted

Throw(e) ==
  /\ pc' = "threw"
  /\ error' = e

\* lines 406-421
ResolvePeriods ==
  /\ pc = "resolve"
  /\ currentPeriod' = resolveCurrentPeriod(params)
  /\ previousPeriod' = resolvePreviousPeriod(params)
  /\ pc' = "shift"
  /\ UNCHANGED <<params, monthly_metrics, behavioral_coaching, currentCoachingPeriod,
                 previousCoachingPeriod, allMonthlyMetrics, allBehavioralCoaching,
                 currentMetrics, previousMetrics, currentCoaching, previousCoaching,
                 filterBreakdown, result, error>>
  /\ UNCHANGED otherVars

\* lines 431-444
ShiftCoachingPeriods ==
  /\ pc = "shift"
  /\ currentCoachingPeriod' = shiftCurrentPeriod(params, currentPeriod, previousPeriod)
  /\ IF shiftThrows(params, previousPeriod)
       THEN /\ previousCoachingPeriod' = previousCoachingPeriod
            /\ Throw("TypeError")
       ELSE /\ previousCoachingPeriod' = shiftPreviousPeriod(params, previousPeriod)
            /\ pc' = "fetchMetrics"
            /\ error' = error
  /\ UNCHANGED <<params, monthly_metrics, behavioral_coaching, currentPeriod,
                 previousPeriod, allMonthlyMetrics, allBehavioralCoaching,
                 currentMetrics, previousMetrics, currentCoaching, previousCoaching,
                 filterBreakdown, result>>
  /\ UNCHANGED otherVars

\* .from(table).select('*').eq('amplifai_org', organization).eq('year', year)
selectOrgYear(table, p) ==
  IF table = Absent THEN Absent
  ELSE SelectSeq(table, LAMBDA r : r.amplifai_org = p.organization /\ r.year = p.year)

\* lines 476-489
FetchMonthlyMetrics ==
  /\ pc = "fetchMetrics"
  /\ allMonthlyMetrics' = selectOrgYear(monthly_metrics, params)
  /\ pc' = "fetchCoaching"
  /\ UNCHANGED <<params, monthly_metrics, behavioral_coaching, currentPeriod,
                 previousPeriod, currentCoachingPeriod, previousCoachingPeriod,
                 allBehavioralCoaching, currentMetrics, previousMetrics,
                 currentCoaching, previousCoaching, filterBreakdown, result, error>>
  /\ UNCHANGED otherVars

\* lines 505-519
FetchBehavioralCoaching ==
  /\ pc = "fetchCoaching"
  /\ allBehavioralCoaching' = selectOrgYear(behavioral_coaching, params)
  /\ pc' = "filterMetrics"
  /\ UNCHANGED <<params, monthly_metrics, behavioral_coaching, currentPeriod,
                 previousPeriod, currentCoachingPeriod, previousCoachingPeriod,
                 allMonthlyMetrics, currentMetrics, previousMetrics,
                 currentCoaching, previousCoaching, filterBreakdown, result, error>>
  /\ UNCHANGED otherVars

\* lines 530-606: the diagnostics read the fetched coaching rows through map,
\* filter and spread copies; uniqueMonths.sort() (line 554) sorts such a copy,
\* so the fetched array is afterwards what it was
afterDiagnostics_SortsInPlace(rows) ==
  [i \in 1..Len(rows) |-> rows[Len(rows) + 1 - i]]

afterDiagnostics(rows) == rows

\* lines 530-624
FilterMetrics ==
  /\ pc = "filterMetrics"
  /\ IF metricFilterThrows(params, currentPeriod, OrEmpty(allMonthlyMetrics))
       THEN /\ Throw("TypeError")
            /\ UNCHANGED <<currentMetrics, previousMetrics>>
       ELSE /\ currentMetrics' =
                 SelectSeq(OrEmpty(allMonthlyMetrics),
                           LAMBDA r : metricKeep(params, currentPeriod, r))
            /\ previousMetrics' =
                 SelectSeq(OrEmpty(allMonthlyMetrics),
                           LAMBDA r : metricKeep(params, previousPeriod, r))
            /\ pc' = "filterCurrentCoaching"
            /\ error' = error
  /\ allBehavioralCoaching' = afterDiagnostics(allBehavioralCoaching)
  /\ UNCHANGED <<params, monthly_metrics, behavioral_coaching, currentPeriod,
                 previousPeriod, currentCoachingPeriod, previousCoachingPeriod,
                 allMonthlyMetrics, currentCoaching,
                 previousCoaching, filterBreakdown, result>>
  /\ UNCHANGED otherVars

\* lines 688-731
FilterCurrentCoaching ==
  /\ pc = "filterCurrentCoaching"
  /\ currentCoaching' =
       SelectSeq(OrEmpty(allBehavioralCoaching),
                 LAMBDA r : coachingKeep(params, currentCoachingPeriod, r))
  /\ filterBreakdown' =
       matchCounts(params, currentCoachingPeriod, OrEmpty(allBehavioralCoaching))
  /\ pc' = "filterPreviousCoaching"
  /\ UNCHANGED <<params, monthly_metrics, behavioral_coaching, currentPeriod,
                 previousPeriod, currentCoachingPeriod, previousCoachingPeriod,
                 allMonthlyMetrics, allBehavioralCoaching, currentMetrics,
                 previousMetrics, previousCoaching, result, error>>
  /\ UNCHANGED otherVars

\* lines 791-822
FilterPreviousCoaching ==
  /\ pc = "filterPreviousCoaching"
  /\ IF previousCoachingThrows(params, previousCoachingPeriod, OrEmpty(allBehavioralCoaching))
       THEN /\ Throw("ReferenceError")
            /\ previousCoaching' = previousCoaching
       ELSE /\ previousCoaching' =
                 SelectSeq(OrEmpty(allBehavioralCoaching),
                           LAMBDA r : coachingKeep(params, previousCoachingPeriod, r))
            /\ pc' = "compose"
            /\ error' = error
  /\ UNCHANGED <<params, monthly_metrics, behavioral_coaching, currentPeriod,
                 previousPeriod, currentCoachingPeriod, previousCoachingPeriod,
                 allMonthlyMetrics, allBehavioralCoaching, currentMetrics,
                 previousMetrics, currentCoaching, filterBreakdown, result>>
  /\ UNCHANGED otherVars

\* lines 894-1140; undefined.join(...) at line 1038 is a TypeError
ComposeResult ==
  /\ pc = "compose"
  /\ IF ~currentPeriod.def
       THEN /\ Throw("TypeError")
            /\ result' = result
       ELSE /\ result' =
                 <<withDebugInfo(
                     composeResult(params, currentPeriod, previousPeriod,
                                   currentCoachingPeriod, previousCoachingPeriod,
                                   currentMetrics, previousMetrics,
                                   currentCoaching, previousCoaching),
                     debugInfo(params, currentCoachingPeriod, previousCoachingPeriod,
                               allBehavioralCoaching, currentCoaching, previousCoaching,
                               filterBreakdown))>>
            /\ pc' = "done"
            /\ error' = error
  /\ UNCHANGED <<params, monthly_metrics, behavioral_coaching, currentPeriod,
                 previousPeriod, currentCoachingPeriod, previousCoachingPeriod,
                 allMonthlyMetrics, allBehavioralCoaching, currentMetrics,
                 previousMetrics, currentCoaching, previousCoaching, filterBreakdown>>
  /\ UNCHANGED otherVars

Next ==
  \/ ResolvePeriods
  \/ ShiftCoachingPeriods
  \/ FetchMonthlyMetrics
  \/ FetchBehavioralCoaching
  \/ FilterMetrics
  \/ FilterCurrentCoaching
  \/ FilterPreviousCoaching
  \/ ComposeResult


\* ------------------------------------------------------------ the call as a function

\* processSnapshotData as one function of the request and the two tables: the
\* steps above in their order, the first throw ending the call
processSnapshotData(p, metricsTable, coachingTable) ==
  LET cp == resolveCurrentPeriod(p)
      pp == resolvePreviousPeriod(p)
      ccp == shiftCurrentPeriod(p, cp, pp)
      pcp == shiftPreviousPeriod(p, pp)
      fetchedMetrics == selectOrgYear(metricsTable, p)
      fetchedCoaching == selectOrgYear(coachingTable, p)
      mm == OrEmpty(fetchedMetrics)
      bc == OrEmpty(fetchedCoaching)
      cc == SelectSeq(bc, LAMBDA r : coachingKeep(p, ccp, r))
      pcg == SelectSeq(bc, LAMBDA r : coachingKeep(p, pcp, r))
      failed(e) == [status |-> e, result |-> <<>>]
  IN IF shiftThrows(p, pp) THEN failed("TypeError")
     ELSE IF metricFilterThrows(p, cp, mm) THEN failed("TypeError")
     ELSE IF previousCoachingThrows(p, pcp, bc) THEN failed("ReferenceError")
     ELSE IF ~cp.def THEN failed("TypeError")
     ELSE [status |-> "ok",
           result |-> <<withDebugInfo(
                          composeResult(p, cp, pp, ccp, pcp,
                            SelectSeq(mm, LAMBDA r : metricKeep(p, cp, r)),
                            SelectSeq(mm, LAMBDA r : metricKeep(p, pp, r)),
                            cc, pcg),
                          debugInfo(p, ccp, pcp, fetchedCoaching, cc, pcg,
                                    matchCounts(p, ccp, bc)))>>]

\* the state machine ends as the function says
StepsAgreeWithFunction ==
  /\ pc = "done" =>
       processSnapshotData(params, monthly_metrics, behavioral_coaching)
         = [status |-> "ok", result |-> result]
  /\ pc = "threw" =>
       processSnapshotData(params, monthly_metrics, behavioral_coaching)
         = [status |-> error, result |-> <<>>]

\* ------------------------------------------------------------ inputs

Acme == <<"A","c","m","e">>
Beta == <<"B","e","t","a">>
UHC == <<"U","H","C">>
OtherOrg == <<"O","R","G">>
NPS == <<"N","P","S">>
CSAT == <<"C","S","A","T">>
ProgramA == <<"P","A">>
ProgramB == <<"P","B">>

\* every sequence over S of length at most n
SeqsUpTo(S, n) == UNION {[1..k -> S] : k \in 0..n}

MonthRequest(cur, prev) ==
  [clients |-> <<Acme>>, organization |-> UHC, metric_name |-> NPS, year |-> 2025,
   comparison_type |-> "month", current_month |-> cur, previous_month |-> prev,
   current_quarter |-> UNDEFINED, previous_quarter |-> UNDEFINED]

QuarterRequest(cur, prev) ==
  [clients |-> <<Acme>>, organization |-> UHC, metric_name |-> NPS, year |-> 2025,
   comparison_type |-> "quarter", current_month |-> UNDEFINED, previous_month |-> UNDEFINED,
   current_quarter |-> cur, previous_quarter |-> prev]

MetricRow(client, month, actual, program) ==
  [client |-> client, amplifai_org |-> UHC, amplifai_metric |-> NPS, program |-> program,
   month |-> month, year |-> 2025, actual |-> actual]

CoachingRecord(client, amplifai_metric, metric, month, behavior, sub, count, eff) ==
  [client |-> client, amplifai_org |-> UHC, amplifai_metric |-> amplifai_metric,
   metric |-> metric, month |-> month, year |-> 2025, behavior |-> behavior,
   sub_behavior |-> sub, coaching_count |-> count, effectiveness_pct |-> eff]

CoachingRow(month, behavior, sub, count, eff) ==
  CoachingRecord(Acme, NPS, NULL, month, behavior, sub, count, eff)

\* ------------------------------------------------------------ period requests

June == <<"J","u","n","e">>
LowerJul == <<"j","u","l">>
Q5 == <<"Q","5">>

MonthCodes == {monthOrder[i] : i \in 1..Len(monthOrder)}
QuarterCodes == {Q1, Q2, Q3, Q4}

\* the selectors a request may carry: the codes, a full month name, a code in
\* lower case, an unknown quarter, and a missing selector
MonthSelectors == MonthCodes \cup {June, LowerJul, UNDEFINED}
QuarterSelectors == QuarterCodes \cup {Q5, UNDEFINED}

PeriodRequests ==
  {MonthRequest(c, q) : c \in MonthSelectors, q \in MonthSelectors}
    \cup {QuarterRequest(c, q) : c \in QuarterSelectors, q \in QuarterSelectors}

PeriodMetricTables ==
  {<<>>, <<MetricRow(Acme, Jul, Num(80), ProgramA), MetricRow(Acme, Jun, Num(77), ProgramA)>>}

PeriodCoachingTables ==
  {<<>>, <<CoachingRow(Dec, <<"B","1">>, NULL, Num(2), NullV)>>}

InitPeriods ==
  /\ params \in PeriodRequests
  /\ monthly_metrics \in PeriodMetricTables
  /\ behavioral_coaching \in PeriodCoachingTables
  /\ InitLocals

\* every request shape, valid or not, over a few fixed tables
SpecPeriods == InitPeriods /\ [][Next]_vars

shifted == pc \notin {"resolve", "shift"}

IsMonthRequest == params.comparison_type = "month"

\* C1: in month mode with both selectors among the codes Jan..Dec, each coaching
\* period holds exactly one month, the month cyclically before the performance
\* month (Jan gives Dec); Jul vs Jun gives Jun and May.
C1_MonthShift ==
  (shifted /\ IsMonthRequest
     /\ params.current_month \in MonthCodes /\ params.previous_month \in MonthCodes)
  => /\ Len(currentPeriod.months) = 1
     /\ Len(currentCoachingPeriod.months) = 1
     /\ Len(previousCoachingPeriod.months) = 1
     /\ \A k \in 1..12 :
          /\ (params.current_month = monthOrder[k]) =>
               currentCoachingPeriod.months[1] = monthOrder[((k + 10) % 12) + 1]
          /\ (params.previous_month = monthOrder[k]) =>
               previousCoachingPeriod.months[1] = monthOrder[((k + 10) % 12) + 1]
     /\ (params.current_month = Jan) => currentCoachingPeriod.months = <<Dec>>
     /\ (params.current_month = Jul /\ params.previous_month = Jun) =>
          (currentCoachingPeriod.months = <<Jun>> /\ previousCoachingPeriod.months = <<May>>)

C1_Witness ==
  /\ pc = "done"
  /\ IsMonthRequest
  /\ params.current_month = Jan
  /\ params.previous_month = Dec
  /\ currentCoachingPeriod.months = <<Dec>>
  /\ previousCoachingPeriod.months = <<Nov>>

IsQuarterRequest ==
  /\ params.comparison_type = "quarter"
  /\ params.current_quarter \in QuarterCodes
  /\ params.previous_quarter \in QuarterCodes

\* C2: in quarter mode with both selectors in Q1..Q4, currentCoachingPeriod is
\* previousPeriod, the months of the previous quarter in order, and
\* previousCoachingPeriod is that list with every month moved back three places
\* in the Jan..Dec cycle; Q3 vs Q2 gives Apr,May,Jun and Jan,Feb,Mar, and a
\* previous quarter Q1 gives Oct,Nov,Dec.
C2_QuarterShift ==
  (shifted /\ IsQuarterRequest)
  => /\ currentCoachingPeriod = previousPeriod
     /\ \A k \in 1..4 :
          (params.previous_quarter = <<"Q", Digits[k + 1]>>) =>
            /\ previousPeriod.months =
                 <<monthOrder[3 * k - 2], monthOrder[3 * k - 1], monthOrder[3 * k]>>
            /\ previousCoachingPeriod.months =
                 [i \in 1..3 |-> monthOrder[((3 * k - 3 + i - 1 + 9) % 12) + 1]]
     /\ (params.current_quarter = Q3 /\ params.previous_quarter = Q2) =>
          /\ currentCoachingPeriod.months = <<Apr, May, Jun>>
          /\ previousCoachingPeriod.months = <<Jan, Feb, Mar>>
     /\ (params.previous_quarter = Q1) =>
          previousCoachingPeriod.months = <<Oct, Nov, Dec>>

C2_Witness ==
  /\ pc = "done"
  /\ IsQuarterRequest
  /\ params.current_quarter = Q2
  /\ params.previous_quarter = Q1
  /\ currentCoachingPeriod.months = <<Jan, Feb, Mar>>
  /\ previousCoachingPeriod.months = <<Oct, Nov, Dec>>

\* the selectors of the request resolve: a known quarter code, or a month of
\* the canonical month-order table, for the current and the previous period
SelectorsResolve ==
  IF params.comparison_type = "month"
    THEN params.current_month \in MonthCodes /\ params.previous_month \in MonthCodes
    ELSE params.current_quarter \in QuarterCodes /\ params.previous_quarter \in QuarterCodes

\* C3: a request whose selectors do not resolve never yields a computed
\* snapshot (it is to end in an input-validation failure, with no default month
\* standing in for the bad selector).
C3_BadSelectorRejected ==
  pc = "done" => SelectorsResolve

\* ------------------------------------------------------------ metric tables

MaxMetricRows == 3

MetricRowUniverse ==
  {MetricRow(Acme, Jul, a, ProgramA) :
     a \in {Num(80), Num(78), NullV, UndefV, Str(<<>>), Str(<<"n","a">>)}}
    \cup {MetricRow(Acme, Jun, a, ProgramB) :
            a \in {Num(77), Num(0), Num(0 - 77), NullV, Str(<<"7","7">>)}}
    \cup {MetricRow(Beta, Jul, Num(10), ProgramA)}

InitMetrics ==
  /\ params \in {MonthRequest(Jul, Jun), MonthRequest(Jun, Jul)}
  /\ monthly_metrics \in SeqsUpTo(MetricRowUniverse, MaxMetricRows)
  /\ behavioral_coaching = <<>>
  /\ InitLocals

\* two month-mode requests over every metric table of at most MaxMetricRows rows
SpecMetrics == InitMetrics /\ [][Next]_vars

comparison == result[1].snapshot_metadata.comparison

\* u is the multiple of 10^-d nearest to num / den, for den # 0
Nearest(u, num, den, scale) ==
  2 * Abs(u * den - num * scale) <= Abs(den)

\* C5: percent_change is 'N/A' whenever the previous mean is 0 or undefined, or
\* the current mean is undefined; otherwise it is
\* (currentMean - previousMean) / previousMean * 100 to two decimals followed
\* by '%'; means 79 and 77 give "2.60%".
C5_PercentChange ==
  pc = "done" =>
    LET c == metricAverage(currentMetrics)
        q == metricAverage(previousMetrics)
        shown == comparison.percent_change
    IN /\ (c.n = 0 \/ q.n = 0 \/ q.sum = 0) => shown = NA
       /\ (c.n > 0 /\ q.n > 0 /\ q.sum # 0) =>
            /\ ~shown.na
            /\ shown.decimals = 2
            /\ shown.text = "%"
            \* (c.sum/c.n - q.sum/q.n) / (q.sum/q.n) * 100, in hundredths
            /\ Nearest(shown.units, (c.sum * q.n - q.sum * c.n) * 100, c.n * q.sum, 100)
       /\ (c = [sum |-> 158, n |-> 2] /\ q = [sum |-> 77, n |-> 1]) =>
            shown = Fixed(260, 2, "%")

C5_Witness ==
  /\ pc = "done"
  /\ Len(currentMetrics) = 2
  /\ metricAverage(currentMetrics) = [sum |-> 158, n |-> 2]
  /\ metricAverage(previousMetrics) = [sum |-> 77, n |-> 1]
  /\ comparison.percent_change = Fixed(260, 2, "%")
  /\ comparison.change = Fixed(200, 2, "")

\* the rows of a table matched for a performance period: all five fields equal
MatchedMetricRows(period) ==
  SelectSeq(monthly_metrics,
            LAMBDA r : /\ \E i \in 1..Len(params.clients) : params.clients[i] = r.client
                       /\ r.amplifai_org = params.organization
                       /\ r.amplifai_metric = params.metric_name
                       /\ \E i \in 1..Len(period.months) : period.months[i] = r.month
                       /\ r.year = params.year)

\* an `actual' to discard: null, undefined, the empty string, or not numeric
Discarded(v) ==
  \/ v.t \in {"null", "undefined"}
  \/ v.t = "string" /\ (v.s = <<>> \/ \E i \in 1..Len(v.s) : v.s[i] \notin {Digits[k] : k \in 1..10})

NumericValueOf(v) == IF v.t = "number" THEN v.n ELSE ParseDigits(v.s, 0)

\* the value shown is the mean of the kept actuals of rows, or 'N/A' without any
ShowsMeanOf(shown, rows) ==
  LET kept == SelectSeq(rows, LAMBDA r : ~Discarded(r.actual))
      total == SumSeq([i \in 1..Len(kept) |-> NumericValueOf(kept[i].actual)])
  IN IF kept = <<>> THEN shown = NA
     ELSE /\ ~shown.na
          /\ shown.decimals = 2
          /\ Nearest(shown.units, total, Len(kept), 100)

\* C6: the mean reported for each performance period is the arithmetic mean of
\* the `actual' of the matched rows that are not discarded (null, undefined,
\* empty string, not numeric); a discarded row counts in neither sum nor
\* divisor but does count in metric_data_points; without a valid value the
\* mean is 'N/A'.
C6_MeanOfValidActuals ==
  pc = "done" =>
    /\ ShowsMeanOf(comparison.current_value, MatchedMetricRows(currentPeriod))
    /\ ShowsMeanOf(comparison.previous_value, MatchedMetricRows(previousPeriod))
    /\ result[1].snapshot_metadata.data_quality.metric_data_points_current
         = Len(MatchedMetricRows(currentPeriod))
    /\ result[1].snapshot_metadata.data_quality.metric_data_points_previous
         = Len(MatchedMetricRows(previousPeriod))

C6_Witness ==
  /\ pc = "done"
  /\ params.current_month = Jul
  /\ Len(currentMetrics) = 3
  /\ \E i \in 1..3 : currentMetrics[i].actual = NullV
  /\ \E i \in 1..3 : currentMetrics[i].actual = Str(<<"n","a">>)
  /\ comparison.current_value = Fixed(8000, 2, "")
  /\ result[1].snapshot_metadata.data_quality.metric_data_points_current = 3
  /\ comparison.previous_value = NA


\* ------------------------------------------------------------ coaching tables

MaxCoachingRows == 3

Empathy == <<"E","m","p","a","t","h","y">>

\* rows that agree with the request in client, organization and metric, in the
\* months of the coaching periods, with and without an effectiveness
MatchingCoachingRows ==
  {CoachingRow(m, Empathy, NULL, Num(2), e) : m \in {Jun, May}, e \in {NullV, Num(0), Num(1)}}

\* rows that differ from the request in one field, or match by a fallback
OtherCoachingRows ==
  {CoachingRecord(Beta, NPS, NULL, Jun, Empathy, NULL, Num(2), Num(1)),
   CoachingRecord(Acme, NULL, NPS, Jun, Empathy, NULL, Num(2), Num(1)),
   CoachingRecord(Acme, CSAT, NULL, Jun, Empathy, NULL, Num(2), Num(1)),
   CoachingRow(Apr, Empathy, NULL, Num(2), Num(1)),
   CoachingRow(June, Empathy, NULL, Num(2), NullV)}

CoachingRowUniverse == MatchingCoachingRows \cup OtherCoachingRows

InitCoaching ==
  /\ params \in {MonthRequest(Jul, Jun), MonthRequest(Jul, Jul)}
  /\ monthly_metrics = <<>>
  /\ behavioral_coaching \in SeqsUpTo(CoachingRowUniverse, MaxCoachingRows)
  /\ InitLocals

\* two month-mode requests (coaching periods Jun and May, and Jun twice) over
\* every coaching table of at most MaxCoachingRows rows
SpecCoaching == InitCoaching /\ [][Next]_vars

\* the five tests of the filter, each on its own
FiveTestsHold(period, r) ==
  /\ \E i \in 1..Len(params.clients) : params.clients[i] = r.client
  /\ normalizeString(r.amplifai_org) = normalizeString(params.organization)
  /\ \/ normalizeString(r.amplifai_metric) = normalizeString(params.metric_name)
     \/ normalizeString(r.metric) = normalizeString(params.metric_name)
  /\ \E i \in 1..Len(period.months) :
       \/ period.months[i] = r.month
       \/ normalizeMonth(period.months[i]) = normalizeMonth(r.month)
  /\ r.year = params.year

\* C4: for each coaching period the filter selects a row exactly when the five
\* tests hold, whatever their order, and evaluating it on any row, also one
\* that matches client, organization and metric but not the month, raises no
\* error; the two periods' filters apply the same rule.
C4_FilterIsConjunction ==
  /\ pc \in {"filterPreviousCoaching", "compose", "done", "threw"} =>
       currentCoaching =
         SelectSeq(allBehavioralCoaching, LAMBDA r : FiveTestsHold(currentCoachingPeriod, r))
  /\ pc \in {"compose", "done"} =>
       previousCoaching =
         SelectSeq(allBehavioralCoaching, LAMBDA r : FiveTestsHold(previousCoachingPeriod, r))
  /\ pc = "threw" => error # "ReferenceError"

activity == result[1].coaching_activity

NullEffectivenessRows == {r \in CoachingRowUniverse : r.effectiveness_pct = NullV}

\* t with row r put in before position i + 1
InsertAt(t, i, r) == SubSeq(t, 1, i) \o <<r>> \o SubSeq(t, i + 1, Len(t))

\* the calls on the table of the state with one more row that has no
\* effectiveness and passes the filter of the period, which return a snapshot
WithOneMoreNullRow(period) ==
  {o \in {processSnapshotData(params, monthly_metrics, InsertAt(behavioral_coaching, i, r)) :
            i \in 0..Len(behavioral_coaching),
            r \in {x \in NullEffectivenessRows : coachingKeep(params, period, x)}} :
     o.status = "ok"}

SameAverageOneMoreRow(before, after) ==
  /\ after.nodata = before.nodata
  /\ after.units = before.units
  /\ after.based_on = before.based_on
  /\ ~before.nodata => after.of = before.of + 1

MaxTailRows == 2

B1 == <<"B","1">>
B2 == <<"B","2">>
B3 == <<"B","3">>
B4 == <<"B","4">>
B5 == <<"B","5">>
B6 == <<"B","6">>
S1 == <<"S","1">>
S2 == <<"S","2">>
S3 == <<"S","3">>
S4 == <<"S","4">>
Seven == <<"7">>
Two == <<"2">>

JunRow(behavior, sub, count) == CoachingRow(Jun, behavior, sub, count, NullV)

\* the rows a table starts with: none, four behaviors, or one behavior in
\* three sub-behaviors
BehaviorPrefixes ==
  {<<>>,
   <<JunRow(B1, NULL, Num(3)), JunRow(B2, NULL, Num(2)),
     JunRow(B3, NULL, Num(1)), JunRow(B4, NULL, Num(1))>>,
   <<JunRow(B1, S1, Num(2)), JunRow(B1, S2, Num(1)), JunRow(B1, S3, Num(1))>>}

\* the rows that follow: further behaviors and sub-behaviors, names that are
\* decimal integers, a row with no sub-behavior, one with no behavior, and
\* one with no count
BehaviorTailRows ==
  {JunRow(B5, NULL, Num(1)), JunRow(B6, NULL, Num(1)), JunRow(Seven, NULL, Num(1)),
   JunRow(B1, S4, Num(1)), JunRow(B1, Two, Num(1)), JunRow(B1, S3, Num(2)),
   JunRow(B1, NULL, Num(1)), JunRow(NULL, NULL, Num(1)), JunRow(B6, S1, NullV),
   JunRow(B5, NULL, UndefV)}

InitBehaviors ==
  /\ params \in {MonthRequest(Jul, Jul), MonthRequest(Aug, Jul)}
  /\ monthly_metrics = <<>>
  /\ behavioral_coaching \in
       {pre \o tail : pre \in BehaviorPrefixes,
                      tail \in SeqsUpTo(BehaviorTailRows, MaxTailRows)}
  /\ InitLocals

\* requests whose coaching periods are Jun twice, and Jul and Jun, over the
\* tables of Jun rows made of a prefix and at most MaxTailRows further rows
SpecBehaviors == InitBehaviors /\ [][Next]_vars

\* the two rankings of a returned snapshot, each with the rows it was made from
Rankings ==
  {[rows |-> currentCoaching, top |-> activity.current.top_behaviors],
   [rows |-> previousCoaching, top |-> activity.previous.top_behaviors]}

CountOf(r) == IF r.coaching_count.t = "number" THEN r.coaching_count.n ELSE 0

RowsOfBehavior(rows, b) == SelectSeq(rows, LAMBDA r : r.behavior = b)

BehaviorNames(rows) == {rows[i].behavior : i \in 1..Len(rows)} \ {NULL, UNDEFINED, <<>>}

BehaviorSessions(rows, b) ==
  LET mine == RowsOfBehavior(rows, b)
  IN SumSeq([i \in 1..Len(mine) |-> CountOf(mine[i])])

TotalSessions(rows) == SumSeq([i \in 1..Len(rows) |-> CountOf(rows[i])])

FirstRowOfBehavior(rows, b) ==
  CHOOSE i \in 1..Len(rows) :
    /\ rows[i].behavior = b
    /\ \A j \in 1..(i - 1) : rows[j].behavior # b

Included(top) == {top[i].behavior : i \in 1..Len(top)}

\* C8: for every behavior name the ranking is stable: of two behaviors with the
\* same session count the one whose first row comes earlier ranks first, and
\* is the one kept where the list is cut at five.
C8_TiesByFirstAppearance ==
  pc = "done" =>
    \A k \in Rankings :
      /\ \A i, j \in 1..Len(k.top) :
           (i < j /\ k.top[i].sessions = k.top[j].sessions) =>
             FirstRowOfBehavior(k.rows, k.top[i].behavior)
               < FirstRowOfBehavior(k.rows, k.top[j].behavior)
      /\ \A i \in 1..Len(k.top) :
           \A b \in BehaviorNames(k.rows) \ Included(k.top) :
             BehaviorSessions(k.rows, b) = k.top[i].sessions =>
               FirstRowOfBehavior(k.rows, k.top[i].behavior) < FirstRowOfBehavior(k.rows, b)

\* C9: top_behaviors has at most five entries in non-increasing order of
\* session count, no listed behavior has fewer sessions than an omitted one,
\* and each percent_of_total is the behavior's sessions over the period's
\* total coaching sessions times 100 to one decimal, '0%' when the total is 0;
\* no behavior is listed twice, and one is omitted only when five are listed.
C9_TopBehaviors ==
  pc = "done" =>
    \A k \in Rankings :
      LET total == TotalSessions(k.rows)
      IN /\ Len(k.top) <= 5
         /\ \A i \in 1..Len(k.top) :
              /\ k.top[i].behavior \in BehaviorNames(k.rows)
              /\ k.top[i].sessions = BehaviorSessions(k.rows, k.top[i].behavior)
              /\ \A j \in 1..Len(k.top) : i < j => k.top[i].sessions >= k.top[j].sessions
              /\ \A b \in BehaviorNames(k.rows) \ Included(k.top) :
                   k.top[i].sessions >= BehaviorSessions(k.rows, b)
              /\ IF total = 0
                   THEN k.top[i].percent_of_total = ZeroPercent
                   ELSE /\ k.top[i].percent_of_total.decimals = 1
                        /\ k.top[i].percent_of_total.text = "%"
                        /\ ~k.top[i].percent_of_total.na
                        /\ Nearest(k.top[i].percent_of_total.units,
                                   k.top[i].sessions * 100, total, 10)
         /\ Cardinality(Included(k.top)) = Len(k.top)
         /\ Len(k.top) < 5 => Included(k.top) = BehaviorNames(k.rows)

\* a returned snapshot that lists five of six behaviors, the first with 3 of
\* the 9 sessions of the period
C9_Witness ==
  /\ pc = "done"
  /\ Len(activity.current.top_behaviors) = 5
  /\ Cardinality(BehaviorNames(currentCoaching)) = 6
  /\ TotalSessions(currentCoaching) = 9
  /\ activity.current.top_behaviors[1].behavior = B1
  /\ activity.current.top_behaviors[1].percent_of_total = Fixed(333, 1, "%")

SubNames(rows, b) ==
  {rows[i].sub_behavior : i \in {j \in 1..Len(rows) : rows[j].behavior = b}}
    \ {NULL, UNDEFINED, <<>>}

SubSessions(rows, b, s) ==
  LET mine == SelectSeq(rows, LAMBDA r : r.behavior = b /\ r.sub_behavior = s)
  IN SumSeq([i \in 1..Len(mine) |-> CountOf(mine[i])])

FirstRowOfSub(rows, b, s) ==
  CHOOSE i \in 1..Len(rows) :
    /\ rows[i].behavior = b /\ rows[i].sub_behavior = s
    /\ \A j \in 1..(i - 1) : ~(rows[j].behavior = b /\ rows[j].sub_behavior = s)

IncludedSubs(subs) == {subs[i].sub_behavior : i \in 1..Len(subs)}

\* the sub_behaviors list subs of behavior b, made from rows: at most three,
\* each with its sessions, none smaller than a later or an omitted one, each
\* share taken of all the sessions of the behavior
SubBehaviorsRanked(rows, b, subs) ==
  LET total == BehaviorSessions(rows, b)
  IN /\ Len(subs) <= 3
     /\ Cardinality(IncludedSubs(subs)) = Len(subs)
     /\ Len(subs) < 3 => IncludedSubs(subs) = SubNames(rows, b)
     /\ \A i \in 1..Len(subs) :
          /\ subs[i].sub_behavior \in SubNames(rows, b)
          /\ subs[i].sessions = SubSessions(rows, b, subs[i].sub_behavior)
          /\ \A j \in 1..Len(subs) : i < j => subs[i].sessions >= subs[j].sessions
          /\ \A s \in SubNames(rows, b) \ IncludedSubs(subs) :
               subs[i].sessions >= SubSessions(rows, b, s)
          /\ IF total = 0
               THEN subs[i].percent_of_behavior = ZeroPercent
               ELSE /\ subs[i].percent_of_behavior.decimals = 1
                    /\ subs[i].percent_of_behavior.text = "%"
                    /\ ~subs[i].percent_of_behavior.na
                    /\ Nearest(subs[i].percent_of_behavior.units,
                               subs[i].sessions * 100, total, 10)

\* of two sub-behaviors with the same sessions the one that appears first in
\* the rows comes first, and is the one kept where the list is cut
SubTiesByFirstAppearance(rows, b, subs) ==
  /\ \A i, j \in 1..Len(subs) :
       (i < j /\ subs[i].sessions = subs[j].sessions) =>
         FirstRowOfSub(rows, b, subs[i].sub_behavior) < FirstRowOfSub(rows, b, subs[j].sub_behavior)
  /\ \A i \in 1..Len(subs) :
       \A s \in SubNames(rows, b) \ IncludedSubs(subs) :
         SubSessions(rows, b, s) = subs[i].sessions =>
           FirstRowOfSub(rows, b, subs[i].sub_behavior) < FirstRowOfSub(rows, b, s)

\* C10: sub_behaviors of a listed behavior has at most three entries in
\* non-increasing order of sessions, ties by first appearance; rows without a
\* sub_behavior are left out of the grouping but count in the behavior total
\* that percent_of_behavior divides by; the share is '0%' when that total is 0.
C10_SubBehaviors ==
  pc = "done" =>
    \A k \in Rankings :
      \A i \in 1..Len(k.top) :
        /\ SubBehaviorsRanked(k.rows, k.top[i].behavior, k.top[i].sub_behaviors)
        /\ SubTiesByFirstAppearance(k.rows, k.top[i].behavior, k.top[i].sub_behaviors)

\* ------------------------------------------------------------ month spellings

\* the fetched rows that pass the five tests of a period by the canonical code
\* of their month only, the month itself not being in the period
SpelledDifferently(period) ==
  {i \in 1..Len(allBehavioralCoaching) :
     /\ FiveTestsHold(period, allBehavioralCoaching[i])
     /\ \A k \in 1..Len(period.months) : period.months[k] # allBehavioralCoaching[i].month}

\* C11: a coaching row whose month is a full month name, or differs from the
\* code in case or surrounding whitespace, is selected for a coaching period
\* that has the code when its other four dimensions match: the call that meets
\* such a row returns, with the row among the selected ones.
C11_OtherSpellingSelected ==
  pc \in {"done", "threw"} =>
    /\ \A i \in SpelledDifferently(currentCoachingPeriod) :
         /\ pc = "done"
         /\ \E k \in 1..Len(currentCoaching) : currentCoaching[k] = allBehavioralCoaching[i]
    /\ \A i \in SpelledDifferently(previousCoachingPeriod) :
         /\ pc = "done"
         /\ \E k \in 1..Len(previousCoaching) : previousCoaching[k] = allBehavioralCoaching[i]

\* ------------------------------------------------------------ spellings of the other fields

MaxMatchRows == 2

Xyz == <<"X","y","z">>
Blank == <<" ">>
LowerNps == <<" ","n","p","s"," ">>
LowerUhc == <<"u","h","c">>

\* the request for Jul against Jul with a metric name of blanks only
BlankMetricRequest == [MonthRequest(Jul, Jul) EXCEPT !.metric_name = Blank]

\* requests whose coaching periods are Jun twice, Dec twice (from Jan, and from
\* a selector that is no month), and Jul and Jun
MatchRequests ==
  {MonthRequest(Jul, Jul), MonthRequest(Jan, Jan), MonthRequest(Xyz, Xyz),
   MonthRequest(Aug, Jul), BlankMetricRequest}

JulMetric == MetricRow(Acme, Jul, Num(80), ProgramA)

\* a Jul row as the request spells it, and rows that differ from it in the
\* spelling of the metric or the organization, in the month, or in the year
MatchMetricRows ==
  {JulMetric,
   [JulMetric EXCEPT !.amplifai_metric = LowerNps],
   [JulMetric EXCEPT !.amplifai_org = LowerUhc],
   [JulMetric EXCEPT !.month = Xyz],
   [JulMetric EXCEPT !.month = NULL],
   [JulMetric EXCEPT !.month = Jan],
   [JulMetric EXCEPT !.year = 2024]}

JunCoaching == CoachingRow(Jun, Empathy, NULL, Num(2), Num(1))

\* a Jun row as the request spells it, and rows that differ from it in the two
\* metric fields, in the organization, in the month, or in the year
MatchCoachingRows ==
  {JunCoaching,
   [JunCoaching EXCEPT !.amplifai_metric = LowerNps],
   [JunCoaching EXCEPT !.amplifai_metric = NULL, !.metric = NPS],
   [JunCoaching EXCEPT !.amplifai_metric = CSAT, !.metric = LowerNps],
   [JunCoaching EXCEPT !.amplifai_metric = NULL],
   [JunCoaching EXCEPT !.amplifai_metric = CSAT],
   [JunCoaching EXCEPT !.amplifai_org = LowerUhc],
   [JunCoaching EXCEPT !.month = Dec],
   [JunCoaching EXCEPT !.month = Dec, !.year = 2024],
   [JunCoaching EXCEPT !.month = Xyz, !.amplifai_metric = CSAT],
   [JunCoaching EXCEPT !.month = NULL, !.amplifai_metric = CSAT]}

InitMatching ==
  /\ params \in MatchRequests
  /\ \/ /\ monthly_metrics \in SeqsUpTo(MatchMetricRows, MaxMatchRows)
        /\ behavioral_coaching = <<>>
     \/ /\ monthly_metrics = <<>>
        /\ behavioral_coaching \in SeqsUpTo(MatchCoachingRows, MaxMatchRows)
  /\ InitLocals

\* five requests, each over the metric tables and over the coaching tables of
\* at most MaxMatchRows rows
SpecMatching == InitMatching /\ [][Next]_vars

\* the names of the canonical table, in upper case
MonthNames == {monthMap[i] : i \in 1..Len(monthMap)}

\* a month that is missing, empty, or after trimming and upper-casing no name
\* of the table
CannotBeNormalized(month) ==
  \/ month \in {NULL, UNDEFINED, <<>>}
  \/ ToUpperCase(Trim(month)) \notin MonthNames

RowsOf(rows) == {rows[i] : i \in 1..Len(rows)}

\* C12: for every request, a metric or coaching row whose month cannot be
\* normalized is selected for no period.
C12_UnnormalizableNeverSelected ==
  \A r \in RowsOf(currentMetrics) \cup RowsOf(previousMetrics)
             \cup RowsOf(currentCoaching) \cup RowsOf(previousCoaching) :
    ~CannotBeNormalized(r.month)

\* the tests of the tolerant matcher on a metric row: client, month and year
\* as they are, organization and metric name up to case and outer whitespace
TolerantMetricTests(period, r) ==
  /\ \E i \in 1..Len(params.clients) : params.clients[i] = r.client
  /\ normalizeString(r.amplifai_org) = normalizeString(params.organization)
  /\ normalizeString(r.amplifai_metric) = normalizeString(params.metric_name)
  /\ \E i \in 1..Len(period.months) : period.months[i] = r.month
  /\ r.year = params.year

\* C13: both aggregators apply the tolerant matcher: a metric row whose
\* organization or metric name equals the requested one up to letter case and
\* surrounding whitespace, and whose client, month and year match, is selected
\* by the metric filters, as an equally spelled coaching row is selected by
\* the coaching filters.
C13_BothAggregatorsTolerant ==
  /\ pc \in {"filterCurrentCoaching", "filterPreviousCoaching", "compose", "done"} =>
       \A r \in RowsOf(monthly_metrics) :
         /\ TolerantMetricTests(currentPeriod, r) => r \in RowsOf(currentMetrics)
         /\ TolerantMetricTests(previousPeriod, r) => r \in RowsOf(previousMetrics)
  /\ pc \in {"compose", "done"} =>
       \A r \in RowsOf(behavioral_coaching) :
         /\ FiveTestsHold(currentCoachingPeriod, r) => r \in RowsOf(currentCoaching)
         /\ FiveTestsHold(previousCoachingPeriod, r) => r \in RowsOf(previousCoaching)

\* a metric field that is present and equals the requested metric name up to
\* letter case and surrounding whitespace
FieldIsRequestedMetric(field) ==
  /\ field \notin {NULL, UNDEFINED}
  /\ ToUpperCase(Trim(field)) = ToUpperCase(Trim(params.metric_name))

EitherFieldIsRequestedMetric(r) ==
  FieldIsRequestedMetric(r.amplifai_metric) \/ FieldIsRequestedMetric(r.metric)

\* client, organization, month and year of the five tests
OtherFourTestsHold(period, r) ==
  /\ \E i \in 1..Len(params.clients) : params.clients[i] = r.client
  /\ normalizeString(r.amplifai_org) = normalizeString(params.organization)
  /\ \E i \in 1..Len(period.months) :
       \/ period.months[i] = r.month
       \/ normalizeMonth(period.months[i]) = normalizeMonth(r.month)
  /\ r.year = params.year

\* C14: a coaching row passes the metric test if and only if amplifai_metric or
\* metric equals the requested metric name case-insensitively after trimming:
\* every selected row has such a field, so a row with both fields absent is
\* never selected, and a row that has one, be it the free-text field only, and
\* passes the other four tests is selected.
C14_EitherMetricField ==
  /\ \A r \in RowsOf(allBehavioralCoaching) :
       metricMatch(params, r) <=> EitherFieldIsRequestedMetric(r)
  /\ \A r \in RowsOf(currentCoaching) \cup RowsOf(previousCoaching) :
       EitherFieldIsRequestedMetric(r)
  /\ pc \in {"compose", "done"} =>
       \A r \in RowsOf(allBehavioralCoaching) :
         /\ (OtherFourTestsHold(currentCoachingPeriod, r) /\ EitherFieldIsRequestedMetric(r))
              => r \in RowsOf(currentCoaching)
         /\ (OtherFourTestsHold(previousCoachingPeriod, r) /\ EitherFieldIsRequestedMetric(r))
              => r \in RowsOf(previousCoaching)

\* ------------------------------------------------------------ the coaching block

NoRowMatches(period) ==
  \A r \in RowsOf(behavioral_coaching) : ~FiveTestsHold(period, r)

NoEffectivenessData == [nodata |-> TRUE, units |-> 0, based_on |-> 0, of |-> 0]

\* the coaching block of a snapshot without coaching rows
EmptyCoachingActivity(a) ==
  /\ a.current.total_coaching_sessions = 0
  /\ a.previous.total_coaching_sessions = 0
  /\ a.current.coaching_effectiveness = NoEffectivenessData
  /\ a.previous.coaching_effectiveness = NoEffectivenessData
  /\ a.current.top_behaviors = <<>>
  /\ a.previous.top_behaviors = <<>>
  /\ a.change.coaching_volume_change = 0
  /\ a.change.coaching_volume_change_pct = NA
  /\ a.change.effectiveness_change = NA

\* C15: when no coaching row matches in either coaching period the call raises
\* no error, and the snapshot reports 0 sessions, 'No effectiveness data' and
\* an empty top_behaviors for each period, a volume change of 0, and 'N/A' for
\* coaching_volume_change_pct and effectiveness_change.
C15_NoCoachingRows ==
  (pc \in {"done", "threw"} /\ NoRowMatches(currentCoachingPeriod)
     /\ NoRowMatches(previousCoachingPeriod)) =>
    /\ pc = "done"
    /\ EmptyCoachingActivity(activity)

\* the effectiveness values of the rows that have one
DefinedEffectiveness(rows) ==
  LET es == SelectSeq(rows, LAMBDA r : r.effectiveness_pct.t = "number")
  IN [i \in 1..Len(es) |-> es[i].effectiveness_pct.n]

\* C16: in the change block coaching_volume_change is always currentSessions -
\* previousSessions; coaching_volume_change_pct is a percentage, the change
\* over previousSessions to one decimal, exactly when previousSessions > 0 and
\* 'N/A' otherwise; effectiveness_change is a number of points, the difference
\* of the two effectiveness means in percentage points to two decimals,
\* exactly when both periods have a defined effectiveness and 'N/A' otherwise.
C16_ChangeBlock ==
  pc = "done" =>
    LET cur == TotalSessions(currentCoaching)
        prev == TotalSessions(previousCoaching)
        ce == DefinedEffectiveness(currentCoaching)
        pe == DefinedEffectiveness(previousCoaching)
        pct == activity.change.coaching_volume_change_pct
        pts == activity.change.effectiveness_change
    IN /\ activity.current.total_coaching_sessions = cur
       /\ activity.previous.total_coaching_sessions = prev
       /\ activity.change.coaching_volume_change = cur - prev
       /\ IF prev > 0
            THEN /\ ~pct.na /\ pct.decimals = 1 /\ pct.text = "%"
                 /\ Nearest(pct.units, (cur - prev) * 100, prev, 10)
            ELSE pct = NA
       /\ IF Len(ce) > 0 /\ Len(pe) > 0
            THEN /\ ~pts.na /\ pts.decimals = 2 /\ pts.text = " points"
                 /\ Nearest(pts.units,
                            (SumSeq(ce) * Len(pe) - SumSeq(pe) * Len(ce)) * 100,
                            Len(ce) * Len(pe), 100)
            ELSE pts = NA

\* a returned snapshot with 4 sessions in the previous coaching period and
\* none in the current one: a change of -4, which is -100.0%, and no change
\* of effectiveness
C16_Witness ==
  /\ pc = "done"
  /\ activity.current.total_coaching_sessions = 0
  /\ activity.previous.total_coaching_sessions = 4
  /\ activity.change.coaching_volume_change = 0 - 4
  /\ activity.change.coaching_volume_change_pct = Fixed(0 - 1000, 1, "%")
  /\ activity.change.effectiveness_change = NA

\* ------------------------------------------------------------ order of the rows

\* the arrays that hold the rows of t in some order
Reorderings(t) ==
  {[i \in 1..Len(t) |-> t[f[i]]] :
     f \in {g \in [1..Len(t) -> 1..Len(t)] : \A i, j \in 1..Len(t) : g[i] = g[j] => i = j}}

\* a ranked list without the order of its entries of equal sessions
UpToTies(list) ==
  [sessions |-> [i \in 1..Len(list) |-> list[i].sessions],
   entries |-> {[behavior |-> e.behavior, sessions |-> e.sessions,
                 percent_of_total |-> e.percent_of_total,
                 sub_sessions |-> [i \in 1..Len(e.sub_behaviors) |-> e.sub_behaviors[i].sessions],
                 sub_entries |-> RowsOf(e.sub_behaviors)] : e \in RowsOf(list)}]

\* two snapshots that differ at most in the order of tied behaviors or
\* sub-behaviors
SameUpToTies(a, b) ==
  /\ a.snapshot_metadata = b.snapshot_metadata
  /\ a.debug_info = b.debug_info
  /\ a.coaching_activity.change = b.coaching_activity.change
  /\ \A side \in {"current", "previous"} :
       LET x == a.coaching_activity[side]
           y == b.coaching_activity[side]
       IN /\ x.period_label = y.period_label
          /\ x.total_coaching_sessions = y.total_coaching_sessions
          /\ x.coaching_effectiveness = y.coaching_effectiveness
          /\ UpToTies(x.top_behaviors) = UpToTies(y.top_behaviors)

\* C17: for a fixed request the snapshot is a function of the two record sets:
\* computing it again gives the same value, and putting the rows of either
\* array in another order changes nothing in the returned value but the
\* relative order of behaviors or sub-behaviors of equal summed counts.
C17_OrderIndependent ==
  pc = "done" =>
    /\ processSnapshotData(params, monthly_metrics, behavioral_coaching)
         = [status |-> "ok", result |-> result]
    /\ \A m \in Reorderings(monthly_metrics) :
         \A c \in Reorderings(behavioral_coaching) :
           LET again == processSnapshotData(params, m, c)
           IN /\ again.status = "ok"
              /\ SameUpToTies(result[1], again.result[1])

\* ------------------------------------------------------------ empty and absent arrays

EmptyRequests == {MonthRequest(Jul, Jun), MonthRequest(Jul, Jul), QuarterRequest(Q3, Q2)}

\* no array, an empty one, and a few arrays with rows in the requested months
EmptyMetricTables ==
  {Absent, <<>>,
   <<MetricRow(Acme, Jul, Num(80), ProgramA)>>,
   <<MetricRow(Acme, Jul, Num(80), ProgramA), MetricRow(Acme, Jun, Num(77), ProgramB)>>,
   <<MetricRow(Acme, Jun, NullV, ProgramB)>>}

EmptyCoachingTables ==
  {Absent, <<>>,
   <<CoachingRow(Jun, Empathy, NULL, Num(2), Num(1))>>,
   <<CoachingRow(May, Empathy, NULL, Num(2), Num(1))>>,
   <<CoachingRecord(Beta, NPS, NULL, Jun, Empathy, NULL, Num(2), Num(1))>>,
   <<CoachingRow(Jan, Empathy, NULL, Num(2), NullV), CoachingRow(Feb, Empathy, S1, Num(1), NullV)>>}

InitEmpty ==
  /\ params \in EmptyRequests
  /\ monthly_metrics \in EmptyMetricTables
  /\ behavioral_coaching \in EmptyCoachingTables
  /\ InitLocals

\* three requests over query results of which either may be absent or empty
SpecEmpty == InitEmpty /\ [][Next]_vars

NoRows(t) == t \in {Absent, <<>>}

\* C18: if the metric array, the coaching array, or both are empty or absent,
\* the call raises no error and returns a snapshot in which the affected means
\* are 'N/A', the affected session sums 0 and the affected behavior lists
\* empty.
C18_EmptyOrAbsent ==
  (pc \in {"done", "threw"} /\ (NoRows(monthly_metrics) \/ NoRows(behavioral_coaching))) =>
    /\ pc = "done"
    /\ NoRows(monthly_metrics) =>
         /\ comparison.current_value = NA
         /\ comparison.previous_value = NA
         /\ comparison.change = NA
         /\ comparison.percent_change = NA
    /\ NoRows(behavioral_coaching) =>
         /\ activity.current.total_coaching_sessions = 0
         /\ activity.previous.total_coaching_sessions = 0
         /\ activity.current.top_behaviors = <<>>
         /\ activity.previous.top_behaviors = <<>>

\* ------------------------------------------------------------ programs

\* the program identifiers of the rows of a table matched for a period
ProgramsIn(period) ==
  {r.program : r \in RowsOf(MatchedMetricRows(period))} \ {NULL, UNDEFINED, <<>>}

\* C19: programs_count is the number of distinct program identifiers in the
\* union of the metric rows matched for the current period and those matched
\* for the previous period; a program only in previous-period rows counts.
C19_ProgramsCount ==
  pc = "done" =>
    result[1].snapshot_metadata.programs_count
      = Cardinality(ProgramsIn(currentPeriod) \cup ProgramsIn(previousPeriod))

\* a returned snapshot over rows of one program in the current period and of
\* another in the previous period, which counts 2 programs
C19_Witness ==
  /\ pc = "done"
  /\ ProgramsIn(currentPeriod) = {ProgramA}
  /\ ProgramsIn(previousPeriod) = {ProgramB}
  /\ result[1].snapshot_metadata.programs_count = 2

\* ------------------------------------------------------------ the year of the rows

SelectedRows ==
  RowsOf(currentMetrics) \cup RowsOf(previousMetrics)
    \cup RowsOf(currentCoaching) \cup RowsOf(previousCoaching)

\* the rows of the coaching table of the requested organization that pass the
\* five tests for Dec of the request's year
DecemberRows ==
  {r \in RowsOf(behavioral_coaching) :
     /\ r.amplifai_org = params.organization
     /\ FiveTestsHold([months |-> <<Dec>>], r)}

\* C20: the month shift is cyclic and leaves the year filter alone: every
\* metric or coaching row selected for a period has the year of the request,
\* and for a month-mode request with performance month Jan the coaching rows
\* selected are those of month Dec in the request's own year.
C20_ShiftKeepsYear ==
  /\ \A r \in SelectedRows : r.year = params.year
  /\ (IsMonthRequest /\ params.current_month = Jan
        /\ pc \in {"filterPreviousCoaching", "compose", "done"}) =>
       /\ currentCoachingPeriod.months = <<Dec>>
       /\ RowsOf(currentCoaching) = DecemberRows

\* a returned snapshot for Jan whose coaching table has a Dec row of the
\* request's year, which is selected, and a Dec row of the year before, which
\* is not
C20_Witness ==
  /\ pc = "done"
  /\ IsMonthRequest /\ params.current_month = Jan
  /\ \E r \in RowsOf(behavioral_coaching) : r.month = Dec /\ r.year = params.year - 1
  /\ Len(currentCoaching) = 1
  /\ currentCoaching[1].month = Dec
  /\ currentCoaching[1].year = params.year

\* ------------------------------------------------------------ session volume

\* the rows of the coaching table that pass the five tests of a period
MatchedCoachingRows(period) ==
  SelectSeq(behavioral_coaching, LAMBDA r : FiveTestsHold(period, r))

\* C21: total_coaching_sessions of a period is the sum of coaching_count over
\* exactly the coaching rows matched for that period, a null or undefined
\* coaching_count adding 0; rows that are not matched add nothing.
C21_SessionVolume ==
  pc = "done" =>
    /\ activity.current.total_coaching_sessions
         = TotalSessions(MatchedCoachingRows(currentCoachingPeriod))
    /\ activity.previous.total_coaching_sessions
         = TotalSessions(MatchedCoachingRows(previousCoachingPeriod))

\* a returned snapshot whose table has a row without coaching_count and rows
\* with one: the previous period, which matches all four, sums 4 sessions and
\* the current period, which matches none, sums 0
C21_Witness ==
  /\ pc = "done"
  /\ \E r \in RowsOf(previousCoaching) : r.coaching_count \in {NullV, UndefV}
  /\ Len(previousCoaching) = 4
  /\ currentCoaching = <<>>
  /\ activity.previous.total_coaching_sessions = 4
  /\ activity.current.total_coaching_sessions = 0

\* ---------------------------------------------------------------------------
\* the inputs are only read
\* ---------------------------------------------------------------------------

\* C22: processSnapshotData never writes to its inputs: at every step, up to
\* its return or its throw, the request parameters, the two tables, and, once
\* fetched, the two row arrays (their rows and their order) stay as they were
C22_InputsUntouched ==
  [][/\ params' = params
     /\ monthly_metrics' = monthly_metrics
     /\ behavioral_coaching' = behavioral_coaching
     /\ (pc # "fetchMetrics" => allMonthlyMetrics' = allMonthlyMetrics)
     /\ (pc # "fetchCoaching" =>
           allBehavioralCoaching' = allBehavioralCoaching)]_vars

\* a call that returned after ranking behaviors in an order other than the
\* order of the fetched rows, which are still in the order of the table
C22_Witness ==
  /\ pc = "done"
  /\ Len(allBehavioralCoaching) >= 2
  /\ allBehavioralCoaching = behavioral_coaching
  /\ allBehavioralCoaching[1] # allBehavioralCoaching[Len(allBehavioralCoaching)]
  /\ Len(activity.previous.top_behaviors) >= 2
  /\ activity.previous.top_behaviors[1].behavior
       # previousCoaching[1].behavior

\* ---------------------------------------------------------------------------
\* metric rows and coaching rows together
\* ---------------------------------------------------------------------------

MaxQualityRows == 2

\* Jul and Jun metric rows, with and without a usable value, and one of
\* another client
QualityMetricRows ==
  {MetricRow(Acme, Jul, Num(80), ProgramA), MetricRow(Acme, Jul, NullV, ProgramA),
   MetricRow(Acme, Jun, Num(0), ProgramB), MetricRow(Acme, Jun, Num(77), ProgramB),
   MetricRow(Beta, Jul, Num(10), ProgramA)}

\* Jun and May coaching rows, with and without an effectiveness, and one of
\* another client
QualityCoachingRows ==
  {CoachingRow(Jun, Empathy, NULL, Num(2), Num(1)),
   CoachingRow(Jun, Empathy, NULL, Num(1), NullV),
   CoachingRow(Jun, Empathy, NULL, Num(3), Num(0)),
   CoachingRow(May, Empathy, NULL, Num(2), Num(1)),
   CoachingRow(May, Empathy, NULL, Num(1), NullV),
   CoachingRecord(Beta, NPS, NULL, Jun, Empathy, NULL, Num(2), Num(1))}

InitQuality ==
  /\ params \in {MonthRequest(Jul, Jul), MonthRequest(Jul, Jun),
                 MonthRequest(Aug, Jul)}
  /\ monthly_metrics \in SeqsUpTo(QualityMetricRows, MaxQualityRows)
  /\ behavioral_coaching \in SeqsUpTo(QualityCoachingRows, MaxQualityRows)
  /\ InitLocals

\* three month-mode requests over every pair of a metric table and a coaching
\* table of at most MaxQualityRows rows each
SpecQuality == InitQuality /\ [][Next]_vars

data_quality == result[1].snapshot_metadata.data_quality

\* the number of rows that carry an effectiveness
CarryEffectiveness(rows) ==
  Cardinality({i \in 1..Len(rows) :
                 rows[i].effectiveness_pct.t \notin {"null", "undefined"}})

\* the coverage is X of Y, with Y the matched rows and X those of them that
\* carry an effectiveness, and the label of the period, where it is printed,
\* shows the same two numbers
CoverageOf(coverage, label, rows) ==
  /\ coverage.of = Len(rows)
  /\ coverage.based_on = CarryEffectiveness(rows)
  /\ coverage.based_on <= coverage.of
  /\ ~label.nodata =>
       /\ label.based_on = coverage.based_on
       /\ label.of = coverage.of

\* C23: the data-quality counters are the numbers of metric rows and coaching
\* rows matched for each period, each total is the sum of its two parts, and
\* each effectiveness coverage is X of Y with Y the matched coaching rows of
\* the period and X those with an effectiveness, the same two numbers as in
\* the 'based on X of Y' label of coaching_effectiveness
C23_DataQuality ==
  pc = "done" =>
    /\ data_quality.metric_data_points_current
         = Len(MatchedMetricRows(currentPeriod))
    /\ data_quality.metric_data_points_previous
         = Len(MatchedMetricRows(previousPeriod))
    /\ data_quality.total_metric_data_points
         = data_quality.metric_data_points_current
             + data_quality.metric_data_points_previous
    /\ data_quality.coaching_records_current
         = Len(MatchedCoachingRows(currentCoachingPeriod))
    /\ data_quality.coaching_records_previous
         = Len(MatchedCoachingRows(previousCoachingPeriod))
    /\ data_quality.total_coaching_records
         = data_quality.coaching_records_current
             + data_quality.coaching_records_previous
    /\ CoverageOf(data_quality.coaching_effectiveness_coverage_current,
                  activity.current.coaching_effectiveness,
                  MatchedCoachingRows(currentCoachingPeriod))
    /\ CoverageOf(data_quality.coaching_effectiveness_coverage_previous,
                  activity.previous.coaching_effectiveness,
                  MatchedCoachingRows(previousCoachingPeriod))

\* two matched coaching rows of which one carries an effectiveness, beside
\* one matched metric row and rows of another client in both tables
C23_Witness ==
  /\ pc = "done"
  /\ Len(monthly_metrics) = 2
  /\ data_quality.metric_data_points_current = 1
  /\ data_quality.total_metric_data_points = 2
  /\ Len(behavioral_coaching) = 2
  /\ data_quality.coaching_effectiveness_coverage_current
       = [based_on |-> 1, of |-> 2]
  /\ ~activity.current.coaching_effectiveness.nodata
  /\ data_quality.total_coaching_records = 4

\* ---------------------------------------------------------------------------
\* the change of the metric
\* ---------------------------------------------------------------------------

\* C24: change is currentMean - previousMean to two decimals whenever both
\* means are defined, a previous mean of 0 included, and is 'N/A' exactly when
\* at least one of the two means is undefined
C24_Change ==
  pc = "done" =>
    LET c == metricAverage(MatchedMetricRows(currentPeriod))
        q == metricAverage(MatchedMetricRows(previousPeriod))
        shown == comparison.change
    IN /\ (c.n > 0 /\ q.n > 0) =>
            /\ ~shown.na
            /\ shown.decimals = 2
            /\ shown.text = ""
            \* c.sum/c.n - q.sum/q.n, in hundredths
            /\ Nearest(shown.units, c.sum * q.n - q.sum * c.n, c.n * q.n, 100)
       /\ (shown = NA) <=> (c.n = 0 \/ q.n = 0)

\* a current mean of 80 over a previous mean of 0: the change is 80.00 while
\* the percent change is 'N/A'
C24_Witness ==
  /\ pc = "done"
  /\ metricAverage(currentMetrics) = [sum |-> 80, n |-> 1]
  /\ metricAverage(previousMetrics) = [sum |-> 0, n |-> 1]
  /\ comparison.change = Fixed(8000, 2, "")
  /\ comparison.percent_change = NA

\* ---------------------------------------------------------------------------
\* the behavior breakdown against the period total
\* ---------------------------------------------------------------------------

\* the two periods of a returned snapshot, each with the rows matched for it
Breakdowns ==
  {[rows |-> MatchedCoachingRows(currentCoachingPeriod),
    period |-> activity.current],
   [rows |-> MatchedCoachingRows(previousCoachingPeriod),
    period |-> activity.previous]}

SessionsListed(entries) ==
  SumSeq([i \in 1..Len(entries) |-> entries[i].sessions])

\* C29: in each period the sessions of a listed behavior are the sum of
\* coaching_count over the matched rows of that behavior and are the total
\* its sub-behaviors are shares of; the sessions of the listed behaviors
\* together do not exceed total_coaching_sessions, nor those of a behavior's
\* listed sub-behaviors the behavior's sessions; a row without a behavior
\* counts in the period total and in no behavior
C29_BreakdownWithinTotal ==
  pc = "done" =>
    \A k \in Breakdowns :
      LET top == k.period.top_behaviors
      IN /\ k.period.total_coaching_sessions = TotalSessions(k.rows)
         /\ SessionsListed(top) <= k.period.total_coaching_sessions
         /\ \A i \in 1..Len(top) :
              LET subs == top[i].sub_behaviors
              IN /\ ~Falsy(top[i].behavior)
                 /\ top[i].sessions = BehaviorSessions(k.rows, top[i].behavior)
                 /\ top[i].sessions = totalForBehavior(k.rows, top[i].behavior)
                 /\ \A j \in 1..Len(subs) :
                      subs[j].percent_of_behavior
                        = formatShare(subs[j].sessions, top[i].sessions)
                 /\ SessionsListed(subs) <= top[i].sessions

\* a period of 6 sessions: one behavior of 5, of which 4 in three
\* sub-behaviors and 1 in none, and a row of 1 without a behavior
C29_Witness ==
  /\ pc = "done"
  /\ activity.previous.total_coaching_sessions = 6
  /\ Len(activity.previous.top_behaviors) = 1
  /\ activity.previous.top_behaviors[1].sessions = 5
  /\ SessionsListed(activity.previous.top_behaviors[1].sub_behaviors) = 4
  /\ \E r \in RowsOf(previousCoaching) : Falsy(r.behavior)

\* ---------------------------------------------------------------------------
\* saveSnapshot of src/unnamed/part_001 and generateAISummary of
\* src/src/services/openaiService.js
\* ---------------------------------------------------------------------------

\* a number of a record, or null: units * 10^-decimals
NumberOf(units, decimals) == [null |-> FALSE, units |-> units, decimals |-> decimals]
NullNumber == [null |-> TRUE, units |-> 0, decimals |-> 0]

\* parseFloat of a string that toFixed printed, whatever follows the digits
parseFloat(val) == NumberOf(val.units, val.decimals)

\* part_001 lines 13-18: percentChangeNum; the strings of the processor never
\* include 'previous was 0'
percentChangeNum(percent_change) ==
  IF percent_change.na THEN NullNumber ELSE parseFloat(percent_change)

\* part_001 lines 21-25
parseValue(val) == IF val.na THEN NullNumber ELSE parseFloat(val)

\* part_001 lines 28-32
coachingVolChangePct(pct) == IF pct.na THEN NullNumber ELSE parseFloat(pct)

\* part_001 lines 35-39: the digits and dots before the first '%', none when
\* the string starts with a sign
parseEffectiveness(val) ==
  IF val.nodata \/ val.units < 0 THEN NullNumber ELSE NumberOf(val.units, 2)

\* x || null, for a number x
NumberOrNull(n) == IF n = 0 THEN NullNumber ELSE NumberOf(n, 0)

\* String.prototype.includes
Contains(s, sub) ==
  \E k \in 0..(Len(s) - Len(sub)) : SubSeq(s, k + 1, k + Len(sub)) = sub

\* part_001 lines 42-48
getAmplifaiOrg(org) ==
  IF ~Falsy(org) /\ Contains(org, <<"U","N","I","T","E","D">>)
                 /\ Contains(org, <<"H","E","A","L","T","H">>)
    THEN <<"U","H","C">>
    ELSE org

\* part_001 lines 52-61, in the order of Object.entries
standardized ==
  << [standard |-> <<"N","P","S">>,
      variations |-> << <<"N","P","S">>, <<"C","H","A","T"," ","N","P","S">>,
                        <<"I","B"," ","N","P","S">>,
                        <<"N","P","S"," ","R","A","T","I","N","G">>,
                        <<"U","E","S","-","N","P","S"," ","C","O","M","P","O","S","I","T","E"," ","S","C","O","R","E">> >>],
     [standard |-> <<"A","H","T">>,
      variations |-> << <<"A","H","T">>,
                        <<"A","V","E","R","A","G","E"," ","H","A","N","D","L","E"," ","T","I","M","E">>,
                        <<"A","V","E"," ","H","A","N","D","L","E"," ","T","I","M","E">> >>],
     [standard |-> <<"Q","A">>,
      variations |-> << <<"Q","A">>, <<"Q","U","A","L","I","T","Y">>,
                        <<"Q","A"," ","S","C","O","R","E">>,
                        <<"Q","U","A","L","I","T","Y"," ","S","C","O","R","E">> >>],
     [standard |-> <<"C","S","A","T">>,
      variations |-> << <<"C","S","A","T">>, <<"C","-","S","A","T">>,
                        <<"C","S","A","T","%">> >>],
     [standard |-> <<"F","C","R">>,
      variations |-> << <<"F","C","R">>,
                        <<"F","I","R","S","T"," ","C","A","L","L"," ","R","E","S","O","L","U","T","I","O","N">>,
                        <<"F","C","R","3","6">> >>],
     [standard |-> <<"T","R","A","N","S","F","E","R","_","R","A","T","E">>,
      variations |-> << <<"T","R","A","N","S","F","E","R"," ","R","A","T","E">>,
                        <<"T","R","A","N","S","F","E","R","%">>,
                        <<"T","R","A","N","S","F","E","R","S">> >>],
     [standard |-> <<"A","T","T","E","N","D","A","N","C","E">>,
      variations |-> << <<"A","T","T","E","N","D","A","N","C","E">>,
                        <<"A","T","T","E","N","D","A","N","C","E"," ","%">>,
                        <<"R","E","L","I","A","B","I","L","I","T","Y">> >>],
     [standard |-> <<"R","E","L","E","A","S","E","_","R","A","T","E">>,
      variations |-> << <<"R","E","L","E","A","S","E"," ","R","A","T","E">>,
                        <<"R","E","L","E","A","S","E"," ","%">> >> ] >>

\* part_001 lines 51-69: the first standard name one of whose variations the
\* metric name in upper case includes, or the name as given
getAmplifaiMetric(metric) ==
  LET hits == {k \in 1..Len(standardized) :
                 \E v \in 1..Len(standardized[k].variations) :
                   /\ ~Falsy(metric)
                   /\ Contains(ToUpperCase(metric), standardized[k].variations[v])}
  IN IF hits = {} THEN metric
     ELSE standardized[CHOOSE k \in hits : \A h \in hits : k <= h].standard

\* part_001 line 81: change_value is parsed from comparison.current_value
changeValue(cmp) == parseValue(cmp.current_value)

\* part_001 lines 71-95: the row saveSnapshot inserts
snapshotRecord(data, p) ==
  LET cmp == data.snapshot_metadata.comparison
      act == data.coaching_activity
  IN [clients |-> p.clients,
      amplifai_org |-> getAmplifaiOrg(p.organization),
      amplifai_metric |-> getAmplifaiMetric(p.metric_name),
      comparison_type |-> p.comparison_type,
      current_period_label |-> cmp.current_period,
      previous_period_label |-> cmp.previous_period,
      year |-> p.year,
      current_value |-> parseValue(cmp.current_value),
      previous_value |-> parseValue(cmp.previous_value),
      change_value |-> changeValue(cmp),
      percent_change |-> percentChangeNum(cmp.percent_change),
      current_programs_count |-> NumberOrNull(data.snapshot_metadata.programs_count),
      current_coaching_sessions |-> NumberOrNull(act.current.total_coaching_sessions),
      previous_coaching_sessions |-> NumberOrNull(act.previous.total_coaching_sessions),
      coaching_volume_change |-> NumberOrNull(act.change.coaching_volume_change),
      coaching_volume_change_pct |->
        coachingVolChangePct(act.change.coaching_volume_change_pct),
      current_coaching_effectiveness |->
        parseEffectiveness(act.current.coaching_effectiveness),
      previous_coaching_effectiveness |->
        parseEffectiveness(act.previous.coaching_effectiveness),
      coaching_effectiveness_change |-> parseValue(act.change.effectiveness_change),
      current_top_behaviors |-> act.current.top_behaviors,
      previous_top_behaviors |-> act.previous.top_behaviors,
      ai_summary |-> IF Falsy(data.ai_summary) THEN NULL ELSE data.ai_summary,
      created_by |-> "System"]

\* what the insert of part_001 lines 97-101 may do: return the row, return
\* an error, or reject
InsertOutcomes == {"inserted", "error", "rejected"}

\* the text of a summary
SummaryText == <<"O","K">>

\* what chat.completions.create of openaiService.js lines 57-71 may do:
\* answer with text, with blank text, without a choice, or reject
CompletionOutcomes == {"text", "blank", "no choice", "rejected"}

\* a call of generateAISummary ends in a value or in an error thrown
Returns(value) == [threw |-> FALSE, value |-> value]
Throws == [threw |-> TRUE, value |-> UNDEFINED]

generateAISummary_Rethrows(keySet, outcome) ==
  IF keySet /\ outcome = "rejected" THEN Throws
  ELSE IF keySet /\ outcome = "text" THEN Returns(SummaryText) ELSE Returns(NULL)

\* generateAISummary, openaiService.js lines 12-82: null without a key (13-16),
\* the trimmed text or null (73-75), null when the call or the reading of the
\* answer throws (77-81)
generateAISummary(keySet, outcome) ==
  IF keySet /\ outcome = "text" THEN Returns(SummaryText) ELSE Returns(NULL)

\* part_006 line 114
SummaryFailed ==
  <<"A","I"," ","s","u","m","m","a","r","y"," ","g","e","n","e","r","a","t","i","o","n",
    " ","f","a","i","l","e","d">>

\* ---------------------------------------------------------------------------
\* the /api/snapshot handler of src/unnamed/part_006
\* ---------------------------------------------------------------------------

ClientsArray(items) == [t |-> "array", items |-> items]
ClientsText(s) == [t |-> "string", items |-> s]
ClientsMissing == [t |-> "undefined", items |-> <<>>]

\* a request body that is an object
Body(clients, organization, metric_name, year, comparison_type, current_month,
     previous_month, current_quarter, previous_quarter) ==
  [json |-> "object", clients |-> clients, organization |-> organization,
   metric_name |-> metric_name, year |-> year, comparison_type |-> comparison_type,
   current_month |-> current_month, previous_month |-> previous_month,
   current_quarter |-> current_quarter, previous_quarter |-> previous_quarter]

MonthBody(cur, prev) ==
  Body(ClientsArray(<<Acme>>), UHC, NPS, Num(2025), "month", cur, prev,
       UNDEFINED, UNDEFINED)

QuarterBody(cur, prev) ==
  Body(ClientsArray(<<Acme>>), UHC, NPS, Num(2025), "quarter", UNDEFINED, UNDEFINED,
       cur, prev)

\* a body that is a string JSON.parse rejects, and no body at all
InvalidJson == [MonthBody(Jul, Jun) EXCEPT !.json = "invalid"]
NoBody == [MonthBody(Jul, Jun) EXCEPT !.json = "undefined"]

Request(method, credentials, openaiKey, body) ==
  [method |-> method, credentials |-> credentials, openaiKey |-> openaiKey,
   body |-> body]

Respond(status, body) == <<[status |-> status, body |-> body]>>

\* the longest prefix of s made of digits
RECURSIVE LeadingDigits(_)
LeadingDigits(s) ==
  IF s = <<>> \/ ~Includes(Digits, Head(s)) THEN <<>>
  ELSE <<Head(s)>> \o LeadingDigits(Tail(s))

\* parseInt(year), part_006 line 69: a number as it is, a string by its
\* leading digits
parseInt(v) ==
  CASE v.t = "number" -> Finite(v.n)
    [] v.t = "string" ->
         IF LeadingDigits(Trim(v.s)) = <<>> THEN NaN
         ELSE Finite(ParseDigits(LeadingDigits(Trim(v.s)), 0))
    [] OTHER -> NaN

\* !clients || !Array.isArray(clients) || clients.length === 0, line 49
clientsRejected(clients) == clients.t # "array" \/ Len(clients.items) = 0

\* !year of a value of the body
FalsyValue(v) ==
  \/ v.t \in {"null", "undefined"}
  \/ v.t = "number" /\ v.n = 0
  \/ v.t = "string" /\ v.s = <<>>

\* !organization || !metric_name || !year || !comparison_type, line 53
fieldsRejected(body) ==
  \/ Falsy(body.organization) \/ Falsy(body.metric_name)
  \/ FalsyValue(body.year) \/ body.comparison_type \in {"", "undefined"}

\* part_006 lines 58-83; the years of the model are numbers or start with digits
buildParams(body) ==
  [clients |-> body.clients.items,
   organization |-> body.organization,
   metric_name |-> body.metric_name,
   year |-> parseInt(body.year).n,
   comparison_type |-> body.comparison_type,
   current_month |->
     IF body.comparison_type = "quarter" THEN UNDEFINED ELSE body.current_month,
   previous_month |->
     IF body.comparison_type = "quarter" THEN UNDEFINED ELSE body.previous_month,
   current_quarter |->
     IF body.comparison_type = "quarter" THEN body.current_quarter ELSE UNDEFINED,
   previous_quarter |->
     IF body.comparison_type = "quarter" THEN body.previous_quarter ELSE UNDEFINED,
   current_months |->
     IF body.comparison_type = "quarter" THEN quarterMonths(body.current_quarter)
     ELSE Period(<<body.current_month>>),
   previous_months |->
     IF body.comparison_type = "quarter" THEN quarterMonths(body.previous_quarter)
     ELSE Period(<<body.previous_month>>)]

processVars ==
  <<params, monthly_metrics, behavioral_coaching, pc, currentPeriod, previousPeriod,
    currentCoachingPeriod, previousCoachingPeriod, allMonthlyMetrics,
    allBehavioralCoaching, currentMetrics, previousMetrics, currentCoaching,
    previousCoaching, filterBreakdown, result, error>>

\* the handler ends with a response and calls nothing more
End(status, body) ==
  /\ response' = Respond(status, body)
  /\ hpc' = "end"

\* part_006 lines 19-26
CheckMethod ==
  /\ hpc = "method"
  /\ IF req.method = "OPTIONS" THEN End(200, "")
     ELSE IF req.method # "POST" THEN End(405, "Method not allowed. Use POST.")
     ELSE hpc' = "credentials" /\ response' = response
  /\ UNCHANGED <<req, snapshotData, calls, metric_snapshots, processVars,
                 retryVars, storyVars>>

\* part_006 lines 30-36
CheckCredentials ==
  /\ hpc = "credentials"
  /\ IF ~req.credentials THEN End(500, "Server configuration error")
     ELSE hpc' = "parse" /\ response' = response
  /\ UNCHANGED <<req, snapshotData, calls, metric_snapshots, processVars,
                 retryVars, storyVars>>

\* part_006 lines 39-47 and 151-158: destructuring a body that is undefined
\* is a TypeError, which the outer catch answers
ParseBody ==
  /\ hpc = "parse"
  /\ CASE req.body.json = "invalid" -> End(400, "Invalid JSON in request body")
       [] req.body.json = "undefined" -> End(500, "Snapshot generation failed")
       [] OTHER -> hpc' = "validate" /\ response' = response
  /\ UNCHANGED <<req, snapshotData, calls, metric_snapshots, processVars,
                 retryVars, storyVars>>

\* part_006 lines 49-55
ValidateFields ==
  /\ hpc = "validate"
  /\ IF clientsRejected(req.body.clients)
       THEN End(400, "clients array is required and must not be empty")
     ELSE IF fieldsRejected(req.body)
       THEN End(400, "Missing required fields")
     ELSE hpc' = "build" /\ response' = response
  /\ UNCHANGED <<req, snapshotData, calls, metric_snapshots, processVars,
                 retryVars, storyVars>>

\* part_006 lines 58-91: the params are built and processSnapshotData is called
CallProcessSnapshotData ==
  /\ hpc = "build"
  /\ params' = buildParams(req.body)
  /\ pc' = "resolve"
  /\ calls' = Append(calls, "processSnapshotData")
  /\ hpc' = "process"
  /\ UNCHANGED <<req, snapshotData, metric_snapshots, response, monthly_metrics,
                 behavioral_coaching, currentPeriod, previousPeriod,
                 currentCoachingPeriod, previousCoachingPeriod, allMonthlyMetrics,
                 allBehavioralCoaching, currentMetrics, previousMetrics,
                 currentCoaching, previousCoaching, filterBreakdown, result, error,
                 retryVars, storyVars>>

\* part_006 lines 91-104 and 151-158: the snapshot is held, or the error is
\* thrown on to the outer catch
AwaitProcessSnapshotData ==
  /\ hpc = "process"
  /\ pc \in {"done", "threw"}
  /\ IF pc = "done"
       THEN /\ snapshotData' = result
            /\ hpc' = "summary"
            /\ response' = response
       ELSE /\ snapshotData' = snapshotData
            /\ End(500, "Snapshot generation failed")
  /\ UNCHANGED <<req, calls, metric_snapshots, processVars, retryVars, storyVars>>

\* part_006 lines 106-115 with generateAISummary: the summary is set on the
\* snapshot, and an error thrown is answered with a fixed text
GenerateAISummary ==
  /\ hpc = "summary"
  /\ calls' = Append(calls, "generateAISummary")
  /\ \E outcome \in CompletionOutcomes :
       LET aiSummary == generateAISummary(req.openaiKey, outcome)
       IN snapshotData' =
            <<[ai_summary |-> IF aiSummary.threw THEN SummaryFailed
                              ELSE aiSummary.value] @@ snapshotData[1]>>
  /\ hpc' = "save"
  /\ UNCHANGED <<req, metric_snapshots, response, processVars, retryVars, storyVars>>

\* part_006 lines 117-125 with saveSnapshot: the row is built and inserted;
\* an error of the insert and a rejection both end in null
SaveSnapshot ==
  /\ hpc = "save"
  /\ calls' = Append(calls, "saveSnapshot")
  /\ \E outcome \in InsertOutcomes :
       metric_snapshots' =
         IF outcome = "inserted"
           THEN Append(metric_snapshots, snapshotRecord(snapshotData[1], params))
           ELSE metric_snapshots
  /\ hpc' = "respond"
  /\ UNCHANGED <<req, snapshotData, response, processVars, retryVars, storyVars>>

\* part_006 lines 128-139: the fields of debug_info kept, three added
extendDebugInfo(info) ==
  [test_message |-> "DEBUG_INFO_FORCE_ADDED_AT_END", added_at_end |-> TRUE,
   timestamp |-> "now"] @@ info

\* part_006 lines 127-149
SendSnapshot ==
  /\ hpc = "respond"
  /\ snapshotData' =
       <<[debug_info |-> extendDebugInfo(snapshotData[1].debug_info)]
           @@ snapshotData[1]>>
  /\ response' = Respond(200, snapshotData'[1])
  /\ hpc' = "end"
  /\ UNCHANGED <<req, calls, metric_snapshots, processVars, retryVars, storyVars>>

NextHandler ==
  \/ CheckMethod
  \/ CheckCredentials
  \/ ParseBody
  \/ ValidateFields
  \/ CallProcessSnapshotData
  \/ ResolvePeriods
  \/ ShiftCoachingPeriods
  \/ FetchMonthlyMetrics
  \/ FetchBehavioralCoaching
  \/ FilterMetrics
  \/ FilterCurrentCoaching
  \/ FilterPreviousCoaching
  \/ ComposeResult
  \/ AwaitProcessSnapshotData
  \/ GenerateAISummary
  \/ SaveSnapshot
  \/ SendSnapshot

\* bodies that pass the validation, with selectors known and unknown, and
\* bodies that fail it
HandlerBodies ==
  {MonthBody(Jul, Jun), MonthBody(Jul, Jul), MonthBody(June, Jun),
   MonthBody(UNDEFINED, Jun), QuarterBody(Q3, Q2), QuarterBody(Q5, Q2),
   QuarterBody(Q3, UNDEFINED),
   [MonthBody(Jul, Jun) EXCEPT !.comparison_type = "week"],
   [MonthBody(Jul, Jun) EXCEPT !.year = Str(<<"2","0","2","5">>)],
   [MonthBody(Jul, Jun) EXCEPT !.clients = ClientsArray(<<>>)],
   [MonthBody(Jul, Jun) EXCEPT !.clients = ClientsMissing],
   [MonthBody(Jul, Jun) EXCEPT !.clients = ClientsText(Acme)],
   [MonthBody(Jul, Jun) EXCEPT !.organization = UNDEFINED],
   [MonthBody(Jul, Jun) EXCEPT !.metric_name = <<>>],
   [MonthBody(Jul, Jun) EXCEPT !.year = UndefV],
   [MonthBody(Jul, Jun) EXCEPT !.comparison_type = "undefined"],
   InvalidJson, NoBody}

HandlerRequests ==
  {Request("POST", TRUE, k, b) : k \in BOOLEAN, b \in HandlerBodies}
    \cup {Request("OPTIONS", TRUE, TRUE, MonthBody(Jul, Jun)),
          Request("GET", TRUE, TRUE, MonthBody(Jul, Jun)),
          Request("POST", FALSE, TRUE, MonthBody(Jul, Jun))}

HandlerMetricTables ==
  {<<>>,
   <<MetricRow(Acme, Jul, Num(80), ProgramA), MetricRow(Acme, Jun, Num(77), ProgramB)>>,
   <<MetricRow(Acme, Jul, Num(80), ProgramA), MetricRow(Acme, Jun, Num(0), ProgramB)>>,
   <<MetricRow(Acme, Jul, Num(80), ProgramA)>>}

HandlerCoachingTables ==
  {<<>>,
   <<CoachingRow(Jun, Empathy, NULL, Num(2), Num(1))>>,
   <<CoachingRow(May, Empathy, NULL, Num(3), NullV)>>}

\* a request has arrived and processSnapshotData has not been called
InitHandler ==
  /\ req \in HandlerRequests
  /\ hpc = "method"
  /\ snapshotData = <<>>
  /\ calls = <<>>
  /\ metric_snapshots = <<>>
  /\ response = <<>>
  /\ params = <<>>
  /\ monthly_metrics \in HandlerMetricTables
  /\ behavioral_coaching \in HandlerCoachingTables
  /\ pc = "notCalled"
  /\ NotStarted
  /\ RetryIdle
  /\ StoriesIdle

\* every request over a few tables, the services failing or not
SpecHandler == InitHandler /\ [][NextHandler]_vars

\* the same, where the handler is not left waiting: each awaited call settles
\* and the statement after it runs
SpecHandlerResponds == SpecHandler /\ WF_vars(NextHandler)


\* ---------------------------------------------------------------------------
\* the handler: validation, order of the services, the row saved
\* ---------------------------------------------------------------------------

\* the period selectors of a body resolve to known months or quarters
BodySelectorsResolve(body) ==
  \/ /\ body.comparison_type = "month"
     /\ Includes(monthOrder, body.current_month)
     /\ Includes(monthOrder, body.previous_month)
  \/ /\ body.comparison_type = "quarter"
     /\ quarterMonths(body.current_quarter).def
     /\ quarterMonths(body.previous_quarter).def

\* a body that is an object with a non-empty clients array, the four
\* required fields, and selectors that resolve
Acceptable(body) ==
  /\ body.json = "object"
  /\ body.clients.t = "array" /\ Len(body.clients.items) > 0
  /\ ~Falsy(body.organization) /\ ~Falsy(body.metric_name)
  /\ ~FalsyValue(body.year) /\ body.comparison_type \notin {"", "undefined"}
  /\ BodySelectorsResolve(body)

\* C25: the handler calls processSnapshotData only for a body with a
\* non-empty clients array, with organization, metric_name, year and
\* comparison_type, and with period selectors that resolve to known months or
\* quarters; any other body of a POST is answered 400 and none of
\* processSnapshotData, generateAISummary and saveSnapshot is called
C25_ValidatedBeforeEngine ==
  /\ calls # <<>> => Acceptable(req.body)
  /\ (hpc = "end" /\ req.method = "POST" /\ req.credentials
        /\ ~Acceptable(req.body))
       => /\ response[1].status = 400
          /\ calls = <<>>

ServiceOrder == <<"processSnapshotData", "generateAISummary", "saveSnapshot">>

IsPrefix(s, t) == Len(s) <= Len(t) /\ s = SubSeq(t, 1, Len(s))

\* the body carries the snapshot: its metadata and coaching activity, and
\* every field of its debug_info
Carries(body, snap) ==
  /\ body.snapshot_metadata = snap.snapshot_metadata
  /\ body.coaching_activity = snap.coaching_activity
  /\ \A f \in DOMAIN snap.debug_info : body.debug_info[f] = snap.debug_info[f]

\* the services are called in the order process, AI summary, save; a
\* returned snapshot is answered 200 after all three, and a summary that
\* failed is null; a throw of processSnapshotData is answered 500 after no
\* other call
OrderAndOutcome ==
  /\ IsPrefix(calls, ServiceOrder)
  /\ (pc = "done" /\ hpc \in {"save", "respond", "end"})
       => snapshotData[1].ai_summary \in {SummaryText, NULL}
  /\ (pc = "done" /\ response # <<>>)
       => /\ response[1].status = 200
          /\ calls = ServiceOrder
          /\ Carries(response[1].body, result[1])
  /\ pc = "threw"
       => /\ calls = <<"processSnapshotData">>
          /\ metric_snapshots = <<>>
          /\ response # <<>> => response[1].status = 500

\* C26: once processSnapshotData has returned a snapshot the handler answers
\* 200 with that snapshot, whether the AI summary or the save fails or not,
\* both reporting failure as null without throwing; the steps run in the
\* order process, AI summary, save, respond; a throw of processSnapshotData
\* is answered 500 with no save attempted
C26_AnsweredAfterProcess ==
  /\ []OrderAndOutcome
  /\ (pc = "done") ~> (response # <<>> /\ response[1].status = 200)
  /\ (pc = "threw") ~> (response # <<>> /\ response[1].status = 500)

\* a 200 after a summary that was rejected and an insert that failed
C26_Witness ==
  /\ hpc = "end"
  /\ pc = "done"
  /\ req.openaiKey
  /\ response[1].status = 200
  /\ response[1].body.ai_summary = NULL
  /\ metric_snapshots = <<>>
  /\ calls = ServiceOrder

\* a number of the row is the number the snapshot shows, null for 'N/A'
Reproduces(number, shown) ==
  IF shown.na THEN number.null
  ELSE /\ ~number.null
       /\ number.units = shown.units
       /\ number.decimals = shown.decimals

\* C30: the row saveSnapshot inserts has current_value, previous_value,
\* change_value and percent_change equal to the snapshot's current_value,
\* previous_value, change and percent_change, each null exactly when the
\* snapshot shows 'N/A'
C30_RowReproducesComparison ==
  \A k \in 1..Len(metric_snapshots) :
    /\ Reproduces(metric_snapshots[k].current_value, comparison.current_value)
    /\ Reproduces(metric_snapshots[k].previous_value, comparison.previous_value)
    /\ Reproduces(metric_snapshots[k].change_value, comparison.change)
    /\ Reproduces(metric_snapshots[k].percent_change, comparison.percent_change)

\* processSnapshotData is not running
ProcessIdle ==
  /\ params = <<>>
  /\ monthly_metrics = <<>>
  /\ behavioral_coaching = <<>>
  /\ pc = "notCalled"
  /\ NotStarted

\* ---------------------------------------------------------------------------
\* retryWithBackoff of src/src/services/openaiService.js, lines 180-193
\* ---------------------------------------------------------------------------

\* Math.pow(2, n)
RECURSIVE Pow2(_)
Pow2(n) == IF n <= 0 THEN 1 ELSE 2 * Pow2(n - 1)

waitTime_FromDouble(initial, k) == initial * Pow2(k)

\* line 188: delay * Math.pow(2, attempt - 1)
waitTime(initial, k) == initial * Pow2(k - 1)

\* what a call of fn may do: resolve to one of two answers, or reject
FnOutcomes == {"content", "text", "rejected"}

\* lines 181-187: one iteration up to the catch; the value and the error are
\* named by the attempt they come from
Invoke ==
  /\ rpc = "attempt"
  /\ \E outcome \in FnOutcomes :
       /\ events' = Append(events, [kind |-> "call", attempt |-> attempt,
                                    outcome |-> outcome, ms |-> 0])
       /\ IF outcome # "rejected"
            THEN /\ settled' = <<[kind |-> "returned", of |-> attempt,
                                  value |-> outcome]>>
                 /\ rpc' = "returned"
            ELSE IF attempt = maxRetries
              THEN /\ settled' = <<[kind |-> "threw", of |-> attempt,
                                    value |-> outcome]>>
                   /\ rpc' = "threw"
              ELSE /\ settled' = settled
                   /\ rpc' = "wait"
  /\ UNCHANGED <<maxRetries, delay, attempt, processVars, handlerVars, storyVars>>

\* lines 188-190 and the attempt++ of line 181
Wait ==
  /\ rpc = "wait"
  /\ events' = Append(events, [kind |-> "wait", attempt |-> attempt,
                               outcome |-> "", ms |-> waitTime(delay, attempt)])
  /\ attempt' = attempt + 1
  /\ rpc' = "attempt"
  /\ UNCHANGED <<maxRetries, delay, settled, processVars, handlerVars, storyVars>>

NextRetry ==
  \/ Invoke
  \/ Wait

MaxRetriesLimit == 4

\* the initial delays of the model, the default of line 180 among them
Delays == {1, 250, 1000, 3000}

\* retryWithBackoff(fn, maxRetries, delay) at its first statement
InitRetry ==
  /\ maxRetries \in 1..MaxRetriesLimit
  /\ delay \in Delays
  /\ attempt = 1
  /\ rpc = "attempt"
  /\ events = <<>>
  /\ settled = <<>>
  /\ ProcessIdle
  /\ HandlerIdle
  /\ StoriesIdle

\* every call of retryWithBackoff with at most MaxRetriesLimit attempts, fn
\* resolving or rejecting at each
SpecRetry == InitRetry /\ [][NextRetry]_vars

CallEvents == SelectSeq(events, LAMBDA e : e.kind = "call")

\* C27: retryWithBackoff invokes fn at most maxRetries times; it returns the
\* value of the first attempt that succeeds and makes no attempt after it; if
\* all maxRetries attempts fail it rethrows the error of the last; between
\* failed attempt k and attempt k+1 it waits delay * 2^(k-1), and it never
\* waits after the final attempt
C27_RetryWithBackoff ==
  /\ Len(CallEvents) <= maxRetries
  \* attempts and waits alternate, attempt k being the k-th invocation
  /\ \A j \in 1..Len(events) :
       IF j % 2 = 1
         THEN events[j].kind = "call" /\ events[j].attempt = (j + 1) \div 2
         ELSE /\ events[j].kind = "wait"
              /\ events[j - 1].outcome = "rejected"
              /\ events[j].attempt = j \div 2
              /\ events[j].attempt < maxRetries
              /\ events[j].ms = delay * (2 ^ (events[j].attempt - 1))
  \* nothing follows an attempt that succeeds, nor the final attempt
  /\ \A j \in 1..Len(events) :
       (events[j].kind = "call"
          /\ (events[j].outcome # "rejected" \/ events[j].attempt = maxRetries))
         => j = Len(events)
  /\ rpc = "returned" =>
       /\ settled = <<[kind |-> "returned", of |-> Len(CallEvents),
                       value |-> events[Len(events)].outcome]>>
       /\ events[Len(events)].outcome # "rejected"
       /\ \A j \in 1..(Len(events) - 1) : events[j].outcome \in {"rejected", ""}
  /\ rpc = "threw" =>
       /\ Len(CallEvents) = maxRetries
       /\ \A j \in 1..Len(CallEvents) : CallEvents[j].outcome = "rejected"
       /\ settled = <<[kind |-> "threw", of |-> maxRetries, value |-> "rejected"]>>
       /\ events[Len(events)].kind = "call"
  /\ (settled = <<>>) <=> (rpc \in {"attempt", "wait"})

\* three attempts of the defaults, all rejected: waits of 1000 and 2000, the
\* error of the third rethrown
C27_Witness ==
  /\ rpc = "threw"
  /\ maxRetries = 3
  /\ delay = 1000
  /\ Len(events) = 5
  /\ events[2].ms = 1000
  /\ events[4].ms = 2000
  /\ settled[1].of = 3

\* ---------------------------------------------------------------------------
\* generateHighPerformerStories of src/src/services/storyGenerator.js
\* ---------------------------------------------------------------------------

\* src/src/utils/validators.js, lines 6-9
validateHighPerformerResult(row) ==
  /\ row.client \notin {NULL, UNDEFINED} /\ row.client # <<>>
  /\ row.organization \notin {NULL, UNDEFINED} /\ row.organization # <<>>
  /\ row.program \notin {NULL, UNDEFINED} /\ row.program # <<>>
  /\ row.amplifai_metric \notin {NULL, UNDEFINED} /\ row.amplifai_metric # <<>>

\* src/src/utils/validators.js, lines 16-24: avg_actual / avg_goal between 0.3
\* and 3, the quotient by zero being an infinity or NaN
validateMetricBounds(row) ==
  IF row.avg_actual.t # "number" \/ row.avg_goal.t # "number"
    THEN FALSE
    ELSE LET actual == row.avg_actual.n
             goal == row.avg_goal.n
         IN  IF goal > 0 THEN 10 * actual >= 3 * goal /\ actual <= 3 * goal
             ELSE IF goal < 0 THEN 10 * actual <= 3 * goal /\ actual >= 3 * goal
             ELSE FALSE

\* src/unnamed/part_004, lines 13-39 and 140: the rows found, at most `most`
getHighPerformers(found, most) ==
  SubSeq(found, 1, IF Len(found) < most THEN Len(found) ELSE most)

loopBound_AllFound(limit, found) == found

\* line 41: Math.min(limit, performers.length)
loopBound(limit, found) == IF limit < found THEN limit ELSE found

\* lines 71-90
storyRecord(performer) ==
  [story_type |-> "high_performer",
   client |-> performer.client,
   organization |-> performer.organization,
   program |-> performer.program,
   metric |-> performer.amplifai_metric,
   avg_actual |-> performer.avg_actual,
   avg_goal |-> performer.avg_goal,
   generated_content |-> "content"]

\* lines 98-102: the record with the tokens and the model of the answer
storyOf(record) == [record |-> record, model |-> "unknown"]

\* lines 109-117: the catch of one performer
Failed(performer, message) ==
  /\ errors' = Append(errors, [performer |-> performer.program, error |-> message])
  /\ loopIndex' = loopIndex + 1
  /\ spc' = "loop"

\* lines 18-35
FetchPerformers ==
  /\ spc = "fetch"
  /\ IF high_performers.failed
       THEN /\ spc' = "threw"
            /\ UNCHANGED <<performers, returned>>
       ELSE LET found == getHighPerformers(high_performers.rows, options.limit * 2)
            IN  IF found = <<>>
                  THEN /\ returned' = <<found>>
                       /\ spc' = "done"
                       /\ UNCHANGED performers
                  ELSE /\ performers' = found
                       /\ spc' = "loop"
                       /\ UNCHANGED returned
  /\ UNCHANGED <<options, high_performers, faults, loopIndex, stories, errors,
                 story_log, processVars, handlerVars, retryVars>>

\* lines 41-54 and 120-126: the loop test, then the two validations of the
\* performer, or the return after the last one
NextPerformer ==
  /\ spc = "loop"
  /\ IF loopIndex < loopBound(options.limit, Len(performers))
       THEN /\ IF validateHighPerformerResult(performers[loopIndex + 1])
                    /\ validateMetricBounds(performers[loopIndex + 1])
                 THEN /\ spc' = "enrich"
                      /\ UNCHANGED loopIndex
                 ELSE /\ loopIndex' = loopIndex + 1
                      /\ spc' = "loop"
            /\ UNCHANGED returned
       ELSE /\ returned' = <<stories>>
            /\ spc' = "done"
            /\ UNCHANGED loopIndex
  /\ UNCHANGED <<options, high_performers, faults, performers, stories, errors,
                 story_log, processVars, handlerVars, retryVars>>

\* lines 59-65: getCoachingData throws when its query fails
Enrich ==
  /\ spc = "enrich"
  /\ IF faults[loopIndex + 1] = "enrich"
       THEN Failed(performers[loopIndex + 1], "enrich")
       ELSE spc' = "generate" /\ UNCHANGED <<loopIndex, errors>>
  /\ UNCHANGED <<options, high_performers, faults, performers, stories,
                 story_log, returned, processVars, handlerVars, retryVars>>

\* line 68: generateStory throws when the content API fails
Generate ==
  /\ spc = "generate"
  /\ IF faults[loopIndex + 1] = "generate"
       THEN Failed(performers[loopIndex + 1], "generate")
       ELSE spc' = "save" /\ UNCHANGED <<loopIndex, errors>>
  /\ UNCHANGED <<options, high_performers, faults, performers, stories,
                 story_log, returned, processVars, handlerVars, retryVars>>

\* lines 71-96: saveStory (snapshotProcessor.js, lines 1153-1184) inserts the
\* record into story_log and throws when the insert fails
Save ==
  /\ spc = "save"
  /\ IF ~options.saveToDatabase
       THEN /\ spc' = "push"
            /\ UNCHANGED <<loopIndex, errors, story_log>>
       ELSE IF faults[loopIndex + 1] = "save"
         THEN /\ Failed(performers[loopIndex + 1], "save")
              /\ UNCHANGED story_log
         ELSE /\ story_log' = Append(story_log, storyRecord(performers[loopIndex + 1]))
              /\ spc' = "push"
              /\ UNCHANGED <<loopIndex, errors>>
  /\ UNCHANGED <<options, high_performers, faults, performers, stories,
                 returned, processVars, handlerVars, retryVars>>

\* lines 98-107 and the i++ of line 41
Push ==
  /\ spc = "push"
  /\ stories' = Append(stories, storyOf(storyRecord(performers[loopIndex + 1])))
  /\ loopIndex' = loopIndex + 1
  /\ spc' = "loop"
  /\ UNCHANGED <<options, high_performers, faults, performers, errors,
                 story_log, returned, processVars, handlerVars, retryVars>>

NextStories ==
  \/ FetchPerformers
  \/ NextPerformer
  \/ Enrich
  \/ Generate
  \/ Save
  \/ Push

MaxPerformers == 3

Performer(client, program, metric, actual, goal) ==
  [client |-> client, organization |-> UHC, program |-> program,
   amplifai_metric |-> metric, avg_actual |-> actual, avg_goal |-> goal]

\* a row the query finds, with the service that fails for it
Case(row, fault) == [row |-> row, fault |-> fault]

\* two performers on the two edges of the bounds, with the failures of the
\* three services, and performers that fail one validation
PerformerCases ==
    {Case(Performer(Acme, ProgramA, NPS, Num(30), Num(100)), f) :
       f \in {"none", "enrich", "generate", "save"}}
  \cup
    {Case(Performer(Beta, ProgramB, CSAT, Num(300), Num(100)), f) :
       f \in {"none", "generate"}}
  \cup
    {Case(Performer(Acme, <<>>, NPS, Num(90), Num(80)), "none"),
     Case(Performer(NULL, ProgramA, NPS, Num(90), Num(80)), "none"),
     Case(Performer(Acme, ProgramA, NPS, Num(90), NullV), "none"),
     Case(Performer(Acme, ProgramA, NPS, Num(29), Num(100)), "none"),
     Case(Performer(Beta, ProgramB, CSAT, Num(301), Num(100)), "none")}

\* the limits asked for, the default of line 20 among them
Limits == {1, 2, 5}

\* generateHighPerformerStories(options) at its first statement
InitStories ==
  /\ \E limit \in Limits, save \in BOOLEAN :
       options = [limit |-> limit, saveToDatabase |-> save]
  /\ \E cases \in SeqsUpTo(PerformerCases, MaxPerformers), failed \in BOOLEAN :
       /\ failed => cases = <<>>
       /\ high_performers = [failed |-> failed,
                             rows |-> [j \in 1..Len(cases) |-> cases[j].row]]
       /\ faults = [j \in 1..Len(cases) |-> cases[j].fault]
  /\ performers = <<>>
  /\ loopIndex = 0
  /\ stories = <<>>
  /\ errors = <<>>
  /\ story_log = <<>>
  /\ spc = "fetch"
  /\ returned = <<>>
  /\ ProcessIdle
  /\ HandlerIdle
  /\ RetryIdle

\* every call of generateHighPerformerStories over at most MaxPerformers rows
\* found, with every pattern of failures of the services
SpecStories == InitStories /\ [][NextStories]_vars

\* performer j passes both validations and every service succeeds for it
Succeeds(j) ==
  /\ validateHighPerformerResult(performers[j])
  /\ validateMetricBounds(performers[j])
  /\ \/ faults[j] = "none"
     \/ faults[j] = "save" /\ ~options.saveToDatabase

\* the stories of the performers that succeed among the first k, in order
StoriesOfFirst(k) ==
  LET passing == SelectSeq([j \in 1..k |-> j], Succeeds)
  IN  [n \in 1..Len(passing) |-> storyOf(storyRecord(performers[passing[n]]))]

\* C28: generateHighPerformerStories returns, in performer order, exactly the
\* stories of the performers among the first min(limit, number found) that
\* pass both validations and whose enrichment, generation and (when
\* saveToDatabase) save succeed; no failure aborts the loop or removes an
\* earlier story; at most limit stories are returned and every story was
\* saved before it was added
C28_StoriesOfSucceeding ==
  LET limit == options.limit
      first == IF limit < Len(performers) THEN limit ELSE Len(performers)
  IN
  /\ (spc = "done" /\ ~high_performers.failed) =>
       /\ returned = <<StoriesOfFirst(first)>>
       /\ Len(returned[1]) <= limit
  /\ spc \in {"loop", "enrich", "generate", "save", "push"} =>
       /\ loopIndex <= first
       /\ stories = StoriesOfFirst(loopIndex)
  /\ spc = "threw" => high_performers.failed
  /\ Len(errors) + Len(stories) <= loopIndex
  /\ IF options.saveToDatabase
       THEN /\ Len(story_log) = Len(stories) + (IF spc = "push" THEN 1 ELSE 0)
            /\ \A n \in 1..Len(stories) : stories[n].record = story_log[n]
       ELSE story_log = <<>>

\* limit 5 over three performers found: generation fails for the second, and
\* the stories of the first and the third are returned, both saved
C28_Witness ==
  /\ spc = "done"
  /\ options.limit = 5
  /\ options.saveToDatabase
  /\ Len(performers) = 3
  /\ faults = <<"none", "generate", "none">>
  /\ Len(returned[1]) = 2
  /\ returned[1][1].record.program = ProgramA
  /\ returned[1][2].record.program = ProgramB
  /\ Len(story_log) = 2
  /\ Len(errors) = 1

====
